---- MODULE Spec2Model ----
(***************************************************************************)
(* Retrieval and ingestion core of the chat application: the text          *)
(* segmenter (chunkText), the embedding client (generateEmbeddings), the   *)
(* document upload route, the hybrid search functions of the store, the    *)
(* chat route, the quality scorer and the offline summary job.             *)
(* Each subsystem has its own specification over the shared variables;     *)
(* the variables of the other subsystems stay at their idle values.        *)
(***************************************************************************)
EXTENDS Integers, Sequences, FiniteSets, TLC

VARIABLES
  text,        \* chunkText: argument text (sequence of characters)
  chunkSize,   \* chunkText: argument chunkSize
  overlap,     \* chunkText: argument overlap
  start,       \* chunkText: local start
  chunks,      \* chunkText: local chunks
  cpc,         \* chunkText: "idle" | "loop" | "returned"
  texts,         \* generateEmbeddings: argument texts
  ei,            \* generateEmbeddings: loop variable i
  allEmbeddings, \* generateEmbeddings: local allEmbeddings
  epc,           \* generateEmbeddings: "idle" | "loop" | "returned" | "threw"
  calls,         \* history: number of inputs of every embeddings.create call issued
  svcMismatch,   \* history: some response carried a number of items other than its inputs
  svcShuffled,   \* history: some response listed its items out of index order
  documents,       \* store: rows of table documents
  document_chunks, \* store: rows of table document_chunks
  upc,             \* upload route: position of the request being served
  uCompany,        \* upload route: user.id of the request
  uContent,        \* upload route: text extracted from the uploaded file
  uDocId,          \* upload route: document.id of the inserted row (0: none)
  uStatus,         \* upload route: status of the response (0: none yet)
  uploads,         \* number of upload requests served or being served
  req,             \* search: arguments of the last search call (via "none": no call yet)
  rows,            \* search: rows the last search call returned
  freq,            \* find_relevant_documents: arguments of the last call (via "none": no call yet)
  foundDocs,       \* find_relevant_documents: rows the last call returned
  relevantChunks,  \* chat route: result.data of the search (null read as no row)
  searchError,     \* chat route: result.error of the search is set
  mergedChunks,    \* chat route: local mergedChunks
  context,         \* chat route: local context
  apc,             \* chat route: "idle" | "searched" | "merged" | "context"
  coalesceInput,   \* coalesceChunks: argument chunks (their chunk_text)
  ci,              \* coalesceChunks: loop variable i
  result,          \* coalesceChunks: local result
  copc,            \* coalesceChunks: "idle" | "called" | "loop" | "returned"
  knownOverlap,    \* history: the overlap the chunks passed to coalesceChunks were cut with
  jpc,             \* summary job: position of every run of main
  jobDocuments,    \* summary job: local documents of every run (ids, in the order fetched)
  jdoc,            \* summary job: index in jobDocuments of the document of the current iteration
  successCount,    \* summary job: local successCount of every run
  errorCount,      \* summary job: local errorCount of every run
  summary,         \* summary job: local summary of every run
  embedding,       \* summary job: local embedding of every run
  summaryCalls,    \* history: calls of generateDocumentSummary, the only caller of the completion service
  embeddingCalls,  \* history: calls of generateEmbedding made by every run
  attempted,       \* history: documents every run has started an iteration for
  writers,         \* history: runs that have written each document's summary and embedding
  pendingAtStart,  \* history: the rows of documents when each run fetched its list
  spc,             \* quality scorer: "idle" | "called" | "returned" | "threw"
  scoreArgs,       \* quality scorer: arguments of scoreResponse and the reply of the judge
  scores,          \* quality scorer: the value scoreResponse returned
  chat_sessions,            \* store: rows of table chat_sessions
  chat_messages,            \* store: rows of table chat_messages, in created_at order
  query_analytics,          \* store: rows of table query_analytics
  query_chunks,             \* store: rows of table query_chunks
  response_quality_scores,  \* store: rows of table response_quality_scores
  autoScoreResponses,       \* chat route: process.env.AUTO_SCORE_RESPONSES === "true"
  creq,                     \* chat route: position and locals of every request being served
  gpc,             \* generateDocumentSummary: "idle" | "called" | "loop" | "coalescing" | "combined" | "threw"
  gChunks,         \* generateDocumentSummary: local chunks
  gi,              \* generateDocumentSummary: loop variable i
  batchTexts,      \* history: combinedText of every batch, in order
  gText            \* history: the text the chunks of the document were cut from

chunkVars == <<text, chunkSize, overlap, start, chunks, cpc>>

embedVars == <<texts, ei, allEmbeddings, epc, calls, svcMismatch, svcShuffled>>

storeVars == <<documents, document_chunks>>

uploadVars == <<upc, uCompany, uContent, uDocId, uStatus, uploads>>

searchVars == <<req, rows>>

prefilterVars == <<freq, foundDocs>>

assembleVars == <<relevantChunks, searchError, mergedChunks, context, apc>>

coalesceVars == <<coalesceInput, ci, result, copc, knownOverlap>>

jobVars ==
  <<jpc, jobDocuments, jdoc, successCount, errorCount, summary, embedding, summaryCalls,
    embeddingCalls, attempted, writers, pendingAtStart>>

scorerVars == <<spc, scoreArgs, scores>>

chatVars ==
  <<chat_sessions, chat_messages, query_analytics, query_chunks, response_quality_scores,
    autoScoreResponses, creq>>

summarizerVars == <<gpc, gChunks, gi, batchTexts, gText>>

afterScorerVars == <<chatVars, summarizerVars>>

afterJobVars == <<scorerVars, afterScorerVars>>

lateVars == <<jobVars, afterJobVars>>

vars ==
  <<chunkVars, embedVars, storeVars, uploadVars, searchVars, prefilterVars, assembleVars,
    coalesceVars, lateVars>>

----------------------------------------------------------------------------
(* Bounds of the explored inputs *)

MaxLen == 6

MaxSize == 3

Alphabet == {"a", "b"}

(* Defaults of chunkText *)

DefaultChunkSize == 1000

DefaultOverlap == 200

(* The 2200-character text of the segmenter scenario: two full strides and a short tail *)
ScenarioLen == 2 * DefaultChunkSize + DefaultOverlap

ScenarioText == [i \in 1..ScenarioLen |-> IF i % 3 = 0 THEN "a" ELSE "b"]

IterCap == MaxLen + 2

----------------------------------------------------------------------------
(* Helpers *)

Min(a, b) == IF a < b THEN a ELSE b

Max(a, b) == IF a > b THEN a ELSE b

(* String.prototype.slice(b, e): 0-based, half-open, a negative position counts
   from the end, positions are clamped to the length *)
Slice(t, b, e) ==
  LET n  == Len(t)
      bb == IF b < 0 THEN Max(n + b, 0) ELSE Min(b, n)
      ee == IF e < 0 THEN Max(n + e, 0) ELSE Min(e, n)
  IN  IF bb < ee THEN SubSeq(t, bb + 1, ee) ELSE <<>>

RECURSIVE Concat(_)
Concat(ss) == IF ss = <<>> THEN <<>> ELSE Head(ss) \o Concat(Tail(ss))

CeilDiv(a, b) == (a + b - 1) \div b

----------------------------------------------------------------------------
(* chunkText *)

(* The window end one character early *)
ChunkEnd_OffByOne(s, size, t) == Min(s + size - 1, Len(t))

ChunkEnd(s, size, t) == Min(s + size, Len(t))

(* The stride taken as chunkSize, the overlap forgotten *)
NextStart_NoOverlap(s, size, ov) == s + size

NextStart(s, size, ov) == s + size - ov

(* chunkText as a function of its arguments (0 <= overlap < chunkSize) *)
RECURSIVE ChunksFrom(_, _, _, _)
ChunksFrom(t, s, size, ov) ==
  IF s < Len(t)
  THEN <<Slice(t, s, ChunkEnd(s, size, t))>> \o ChunksFrom(t, NextStart(s, size, ov), size, ov)
  ELSE <<>>

chunkText(t, size, ov) == ChunksFrom(t, 0, size, ov)

ChunkInputs ==
  { <<t, sz, ov>> : t \in UNION { [1..n -> Alphabet] : n \in 0..MaxLen },
                    sz \in 1..MaxSize, ov \in 0..(MaxSize + 1) }
  \cup { <<ScenarioText, DefaultChunkSize, DefaultOverlap>> }

IdleChunk ==
  /\ text = <<>> /\ chunkSize = DefaultChunkSize /\ overlap = DefaultOverlap
  /\ start = 0 /\ chunks = <<>> /\ cpc = "idle"

IdleEmbed ==
  /\ texts = <<>> /\ ei = 0 /\ allEmbeddings = <<>> /\ epc = "idle"
  /\ calls = <<>> /\ svcMismatch = FALSE /\ svcShuffled = FALSE

IdleStore == documents = {} /\ document_chunks = {}

IdleUpload ==
  /\ upc = "idle" /\ uCompany = "none" /\ uContent = <<>>
  /\ uDocId = 0 /\ uStatus = 0 /\ uploads = 0

IdleSearch == req = [via |-> "none"] /\ rows = <<>>

IdlePrefilter == freq = [via |-> "none"] /\ foundDocs = <<>>

IdleAssemble ==
  /\ relevantChunks = <<>> /\ searchError = FALSE /\ mergedChunks = <<>>
  /\ context = <<>> /\ apc = "idle"

IdleCoalesce ==
  /\ coalesceInput = <<>> /\ ci = 0 /\ result = <<>> /\ copc = "idle" /\ knownOverlap = 0

(* The two runs of the summary job that are followed *)
Runs == {1, 2}

IdleJob ==
  /\ jpc = [r \in Runs |-> "idle"] /\ jobDocuments = [r \in Runs |-> <<>>]
  /\ jdoc = [r \in Runs |-> 0]
  /\ successCount = [r \in Runs |-> 0] /\ errorCount = [r \in Runs |-> 0]
  /\ summary = [r \in Runs |-> <<>>] /\ embedding = [r \in Runs |-> <<>>]
  /\ summaryCalls = [r \in Runs |-> 0] /\ embeddingCalls = [r \in Runs |-> 0]
  /\ attempted = [r \in Runs |-> {}] /\ writers = <<>>
  /\ pendingAtStart = [r \in Runs |-> {}]

IdleScorer == spc = "idle" /\ scoreArgs = <<>> /\ scores = <<>>

(* The requests of the chat route that are followed *)
Requests == {1, 2}

IdleChat ==
  /\ chat_sessions = {} /\ chat_messages = <<>> /\ query_analytics = {}
  /\ query_chunks = {} /\ response_quality_scores = {}
  /\ autoScoreResponses = FALSE /\ creq = [q \in Requests |-> [pc |-> "idle"]]

IdleSummarizer ==
  /\ gpc = "idle" /\ gChunks = <<>> /\ gi = 0 /\ batchTexts = <<>> /\ gText = <<>>

IdleAfterScorer == IdleChat /\ IdleSummarizer

IdleAfterJob == IdleScorer /\ IdleAfterScorer

IdleLate == IdleJob /\ IdleAfterJob

(* The subsystems added to the first four stay idle under their specifications *)
IdleRest == IdlePrefilter /\ IdleAssemble /\ IdleCoalesce /\ IdleLate

restVars == <<prefilterVars, assembleVars, coalesceVars, lateVars>>

InitChunk ==
  /\ IdleEmbed /\ IdleStore /\ IdleUpload /\ IdleSearch /\ IdleRest
  /\ \E in \in ChunkInputs :
       /\ text = in[1]
       /\ chunkSize = in[2]
       /\ overlap = in[3]
  /\ start = 0
  /\ chunks = <<>>
  /\ cpc = "loop"

ChunkLoopBody ==
  /\ cpc = "loop"
  /\ start < Len(text)
  /\ Len(chunks) < IterCap
  /\ chunks' = Append(chunks, Slice(text, start, ChunkEnd(start, chunkSize, text)))
  /\ start' = NextStart(start, chunkSize, overlap)
  /\ UNCHANGED <<text, chunkSize, overlap, cpc>>
  /\ UNCHANGED <<embedVars, storeVars, uploadVars, searchVars, restVars>>

ChunkReturn ==
  /\ cpc = "loop"
  /\ ~(start < Len(text))
  /\ cpc' = "returned"
  /\ UNCHANGED <<text, chunkSize, overlap, start, chunks>>
  /\ UNCHANGED <<embedVars, storeVars, uploadVars, searchVars, restVars>>

NextChunk ==
  \/ ChunkLoopBody
  \/ ChunkReturn

SpecChunk == InitChunk /\ [][NextChunk]_vars

ValidConfig == 0 <= overlap /\ overlap < chunkSize

Stride == chunkSize - overlap

----------------------------------------------------------------------------
(* C1: for 0 <= overlap < size the i-th returned chunk (0-based) is exactly
   T[i*(size-overlap) .. min(i*(size-overlap)+size, len(T))), a nonempty text
   gives at least one chunk, and the 2200-character text with the defaults
   gives exactly the three windows [0,1000) [800,1800) [1600,2200). *)
C1_Windows ==
  (cpc = "returned" /\ ValidConfig) =>
    /\ \A i \in 1..Len(chunks) :
         chunks[i] = SubSeq(text, (i - 1) * Stride + 1,
                            Min((i - 1) * Stride + chunkSize, Len(text)))
    /\ (Len(text) > 0 => Len(chunks) >= 1)
    /\ (text = ScenarioText /\ chunkSize = DefaultChunkSize /\ overlap = DefaultOverlap
          => chunks = << SubSeq(text, 1, 1000), SubSeq(text, 801, 1800),
                         SubSeq(text, 1601, 2200) >>)

C1_Witness ==
  /\ cpc = "returned"
  /\ text = ScenarioText /\ chunkSize = DefaultChunkSize /\ overlap = DefaultOverlap
  /\ Len(chunks) = 3

(* C2: a nonempty text shorter than size gives exactly one chunk, the text itself. *)
C2_ShortTextOneChunk ==
  (cpc = "returned" /\ ValidConfig /\ Len(text) > 0 /\ Len(text) < chunkSize) =>
    chunks = <<text>>

(* C3: for a nonempty text and a valid configuration the number of chunks is
   ceil(max(1, len(T) - overlap) / (size - overlap)). *)
C3_ChunkCount ==
  (cpc = "returned" /\ ValidConfig /\ Len(text) > 0) =>
    Len(chunks) = CeilDiv(Max(1, Len(text) - overlap), Stride)

(* A chunk without its first ov characters *)
DropOverlap(c, ov) == Slice(c, ov, Len(c))

Reconstruct(cs, ov) ==
  IF cs = <<>> THEN <<>>
  ELSE Head(cs) \o Concat([i \in 1..(Len(cs) - 1) |-> DropOverlap(cs[i + 1], ov)])

(* C4: the first chunk whole followed by every later chunk without its first
   `overlap` characters is the text again; the empty text gives no chunk. *)
C4_Reconstructs ==
  (cpc = "returned" /\ ValidConfig) =>
    /\ Reconstruct(chunks, overlap) = text
    /\ (text = <<>> => chunks = <<>>)

C4_Witness ==
  /\ cpc = "returned" /\ ValidConfig
  /\ overlap > 0
  /\ Len(chunks) >= 3
  /\ Len(chunks[Len(chunks)]) < overlap

(* C5: with overlap >= size on a nonempty text the call is rejected as a
   configuration error: no window is ever cut and no chunk list is returned. *)
C5_BadConfigRejected ==
  (overlap >= chunkSize /\ Len(text) > 0) => (chunks = <<>> /\ cpc # "returned")

----------------------------------------------------------------------------
(* generateEmbeddings and the embedding service *)

BATCH_SIZE == 2048

MaxTexts == 3

TextIds == {1, 2}

(* The batch sizes around the cap and the 5000-text scenario *)
LargeCounts == {BATCH_SIZE, BATCH_SIZE + 1, 2 * BATCH_SIZE + 904}

EmbedInputs ==
  UNION { [1..n -> TextIds] : n \in 0..MaxTexts }
  \cup { [i \in 1..n |-> i] : n \in LargeCounts }

(* The vector the service computes for one input text *)
Emb(t) == <<"vec", t>>

ListingOrders == {"asc", "desc", "swap"}

(* response.data of a call that answers every input once: item j carries the
   position (index, 0-based) of its input in the batch; the service lists the
   items in an order of its own *)
Listing(k, order) ==
  [j \in 1..k |->
     CASE order = "desc" -> k - j
       [] order = "swap" /\ k >= 2 /\ j <= 2 -> 2 - j
       [] OTHER -> j - 1]

ResponseData(batch, order) ==
  LET pos == Listing(Len(batch), order)
  IN  [j \in 1..Len(batch) |-> [index |-> pos[j], embedding |-> Emb(batch[pos[j] + 1])]]

(* response.data of a call that answers with one item too few or one too many *)
MismatchKinds == {"short", "long"}

MismatchData(batch, kind) ==
  LET full == ResponseData(batch, "asc")
  IN  IF kind = "short" THEN SubSeq(full, 1, Len(full) - 1)
      ELSE Append(full, [index |-> Len(batch), embedding |-> Emb(0)])

(* The items taken in the order the service listed them *)
SortByIndex_NoSort(data) == data

(* response.data.sort((a, b) => a.index - b.index) *)
SortByIndex(data) == SortSeq(data, LAMBDA a, b : a.index < b.index)

(* .map((item) => item.embedding) *)
Embeddings(data) ==
  LET sorted == SortByIndex(data)
  IN  [j \in 1..Len(sorted) |-> sorted[j].embedding]

InitEmbed ==
  /\ IdleChunk /\ IdleStore /\ IdleUpload /\ IdleSearch /\ IdleRest
  /\ texts \in EmbedInputs
  /\ ei = 0
  /\ allEmbeddings = <<>>
  /\ epc = "loop"
  /\ calls = <<>>
  /\ svcMismatch = FALSE
  /\ svcShuffled = FALSE

Batch == Slice(texts, ei, ei + BATCH_SIZE)

(* One pass of the loop whose call is answered with one item per input *)
EmbedBatchAnswered ==
  /\ epc = "loop"
  /\ ei < Len(texts)
  /\ \E order \in ListingOrders :
       /\ allEmbeddings' = allEmbeddings \o Embeddings(ResponseData(Batch, order))
       /\ svcShuffled' = (svcShuffled \/ Listing(Len(Batch), order) # Listing(Len(Batch), "asc"))
  /\ calls' = Append(calls, Len(Batch))
  /\ ei' = ei + BATCH_SIZE
  /\ UNCHANGED <<texts, epc, svcMismatch>>
  /\ UNCHANGED <<chunkVars, storeVars, uploadVars, searchVars, restVars>>

(* One pass of the loop whose call is answered with a wrong number of items *)
EmbedBatchMismatched ==
  /\ epc = "loop"
  /\ ei < Len(texts)
  /\ \E kind \in MismatchKinds :
       allEmbeddings' = allEmbeddings \o Embeddings(MismatchData(Batch, kind))
  /\ calls' = Append(calls, Len(Batch))
  /\ svcMismatch' = TRUE
  /\ ei' = ei + BATCH_SIZE
  /\ UNCHANGED <<texts, epc, svcShuffled>>
  /\ UNCHANGED <<chunkVars, storeVars, uploadVars, searchVars, restVars>>

(* The call rejects: the catch block logs and rethrows *)
EmbedCallFails ==
  /\ epc = "loop"
  /\ ei < Len(texts)
  /\ calls' = Append(calls, Len(Batch))
  /\ epc' = "threw"
  /\ UNCHANGED <<texts, ei, allEmbeddings, svcMismatch, svcShuffled>>
  /\ UNCHANGED <<chunkVars, storeVars, uploadVars, searchVars, restVars>>

EmbedReturn ==
  /\ epc = "loop"
  /\ ~(ei < Len(texts))
  /\ epc' = "returned"
  /\ UNCHANGED <<texts, ei, allEmbeddings, calls, svcMismatch, svcShuffled>>
  /\ UNCHANGED <<chunkVars, storeVars, uploadVars, searchVars, restVars>>

NextEmbed ==
  \/ EmbedBatchAnswered
  \/ EmbedBatchMismatched
  \/ EmbedCallFails
  \/ EmbedReturn

SpecEmbed == InitEmbed /\ [][NextEmbed]_vars

----------------------------------------------------------------------------
(* C6: when every call is answered with one item per input, generateEmbeddings
   issues exactly ceil(n/2048) calls of at most 2048 inputs each and returns n
   vectors, the i-th being the embedding of texts[i], in whatever order the
   items are listed in each response (5000 texts: 3 calls, 5000 vectors). *)
C6_BatchedInOrder ==
  /\ \A c \in 1..Len(calls) : calls[c] >= 1 /\ calls[c] <= BATCH_SIZE
  /\ (epc = "returned" /\ ~svcMismatch) =>
       /\ Len(calls) = CeilDiv(Len(texts), BATCH_SIZE)
       /\ Len(allEmbeddings) = Len(texts)
       /\ \A i \in 1..Len(texts) : allEmbeddings[i] = Emb(texts[i])

C6_Witness ==
  /\ epc = "returned" /\ ~svcMismatch /\ svcShuffled
  /\ Len(texts) = 5000
  /\ Len(calls) = 3
  /\ Len(allEmbeddings) = 5000

(* C7: generateEmbeddings never returns a list whose length differs from the
   number of input texts: a failed call or a response with a mismatched number
   of items ends in an error. *)
C7_NeverWrongLength ==
  /\ (epc = "returned" => Len(allEmbeddings) = Len(texts))
  /\ (epc = "returned" => ~svcMismatch)

----------------------------------------------------------------------------
(* POST /api/documents/upload *)

MaxUploads == 2

(* SQL NULL / JS undefined: of a text or uuid argument, and of a vector column *)
NULL == "NULL"

NullVector == <<>>

Companies == {"A", "B"}

UploadContents == { <<>>, <<"a", "b", "a">>, ScenarioText }

DocumentRow(id, company, content) ==
  [id |-> id, company_id |-> company, content |-> content,
   document_embedding |-> NullVector]

(* chunks.map((chunkText, i) => ({document_id, chunk_text, chunk_index: i,
   embedding: JSON.stringify(embeddings[i])})): a position past the end of
   embeddings is undefined and the row is sent without an embedding *)
ChunkRecords(docId, cs, embeddings) ==
  { [id |-> <<docId, i - 1>>, document_id |-> docId, chunk_text |-> cs[i],
     chunk_index |-> i - 1,
     embedding |-> IF i <= Len(embeddings) THEN embeddings[i] ELSE NullVector] : i \in 1..Len(cs) }

InitUpload ==
  /\ IdleChunk /\ IdleEmbed /\ IdleStore /\ IdleUpload /\ IdleSearch /\ IdleRest

UploadFree == upc \in {"idle", "done"} /\ uploads < MaxUploads

(* Early returns before any write: 401 (no user) or 400 (no file, type, size) *)
UploadRejected ==
  /\ UploadFree
  /\ \E st \in {400, 401} : uStatus' = st
  /\ upc' = "done"
  /\ uCompany' = "none" /\ uContent' = <<>> /\ uDocId' = 0
  /\ uploads' = uploads + 1
  /\ UNCHANGED <<storeVars, embedVars, chunkVars, searchVars, restVars>>

(* The documents insert succeeds *)
UploadInsertDocument ==
  /\ UploadFree
  /\ \E company \in Companies, content \in UploadContents :
       LET id == Cardinality(documents) + 1 IN
       /\ documents' = documents \cup {DocumentRow(id, company, content)}
       /\ uCompany' = company /\ uContent' = content /\ uDocId' = id
  /\ upc' = "inserted"
  /\ uStatus' = 0
  /\ uploads' = uploads + 1
  /\ UNCHANGED <<document_chunks, embedVars, chunkVars, searchVars, restVars>>

(* The documents insert returns docError: 500 *)
UploadInsertDocumentFails ==
  /\ UploadFree
  /\ \E company \in Companies, content \in UploadContents :
       uCompany' = company /\ uContent' = content
  /\ uDocId' = 0
  /\ upc' = "done"
  /\ uStatus' = 500
  /\ uploads' = uploads + 1
  /\ UNCHANGED <<storeVars, embedVars, chunkVars, searchVars, restVars>>

(* if (content) is false: no chunk is made, 201 *)
UploadEmptyContent ==
  /\ upc = "inserted"
  /\ uContent = <<>>
  /\ upc' = "done"
  /\ uStatus' = 201
  /\ UNCHANGED <<uCompany, uContent, uDocId, uploads, storeVars, embedVars, chunkVars, searchVars, restVars>>

(* chunks = chunkText(content); generateEmbeddings(chunks) is entered *)
UploadCallEmbeddings ==
  /\ upc = "inserted"
  /\ uContent # <<>>
  /\ texts' = chunkText(uContent, DefaultChunkSize, DefaultOverlap)
  /\ ei' = 0 /\ allEmbeddings' = <<>> /\ epc' = "loop" /\ calls' = <<>>
  /\ svcMismatch' = FALSE /\ svcShuffled' = FALSE
  /\ upc' = "embedding"
  /\ UNCHANGED <<uCompany, uContent, uDocId, uStatus, uploads, storeVars, chunkVars, searchVars, restVars>>

(* generateEmbeddings threw: the catch block answers 500 *)
UploadEmbeddingsThrew ==
  /\ upc = "embedding"
  /\ epc = "threw"
  /\ upc' = "done"
  /\ uStatus' = 500
  /\ epc' = "idle"
  /\ UNCHANGED <<uCompany, uContent, uDocId, uploads, storeVars, chunkVars,
                 searchVars, restVars, texts, ei, allEmbeddings, calls, svcMismatch, svcShuffled>>

(* generateEmbeddings returned; the document_chunks insert succeeds: 201 *)
UploadInsertChunks ==
  /\ upc = "embedding"
  /\ epc = "returned"
  /\ document_chunks' = document_chunks \cup ChunkRecords(uDocId, texts, allEmbeddings)
  /\ upc' = "done"
  /\ uStatus' = 201
  /\ epc' = "idle"
  /\ UNCHANGED <<uCompany, uContent, uDocId, uploads, documents, chunkVars,
                 searchVars, restVars, texts, ei, allEmbeddings, calls, svcMismatch, svcShuffled>>

(* generateEmbeddings returned; the document_chunks insert returns chunkError: 500 *)
UploadInsertChunksFails ==
  /\ upc = "embedding"
  /\ epc = "returned"
  /\ upc' = "done"
  /\ uStatus' = 500
  /\ epc' = "idle"
  /\ UNCHANGED <<uCompany, uContent, uDocId, uploads, storeVars, chunkVars,
                 searchVars, restVars, texts, ei, allEmbeddings, calls, svcMismatch, svcShuffled>>

(* The passes of generateEmbeddings run inside the request, between
   UploadCallEmbeddings and the step that takes its outcome *)
NextUpload ==
  \/ UploadRejected
  \/ UploadInsertDocument
  \/ UploadInsertDocumentFails
  \/ UploadEmptyContent
  \/ UploadCallEmbeddings
  \/ EmbedBatchAnswered
  \/ EmbedBatchMismatched
  \/ EmbedCallFails
  \/ EmbedReturn
  \/ UploadEmbeddingsThrew
  \/ UploadInsertChunks
  \/ UploadInsertChunksFails

SpecUpload == InitUpload /\ [][NextUpload]_vars

ChunksOfDoc(id) == { c \in document_chunks : c.document_id = id }

(* The rows chunking and embedding the content of a document give *)
CompleteChunkSet(d) ==
  LET cs == chunkText(d.content, DefaultChunkSize, DefaultOverlap)
  IN  ChunkRecords(d.id, cs, [i \in 1..Len(cs) |-> Emb(cs[i])])

----------------------------------------------------------------------------
(* C8: once an upload request has ended in failure the store holds neither its
   document row nor any chunk of it, and every document row in the store is
   there together with its complete chunk set. *)
C8_NoPartialDocument ==
  upc = "done" =>
    /\ uStatus = 500 =>
         /\ \A d \in documents : d.id # uDocId
         /\ ChunksOfDoc(uDocId) = {}
    /\ \A d \in documents : ChunksOfDoc(d.id) = CompleteChunkSet(d)

----------------------------------------------------------------------------
(* The store as the search functions see it, and the search functions *)

MaxDocs == 2

(* Embeddings: vectors of one length (squared length 10), so that the cosine
   similarity of two of them is their dot product over 10 *)
QueryVec == <<3, 1, 0, 0>>

VecSame == <<3, 1, 0, 0>>

VecHalf == <<1, 2, 2, 1>>

VecOrthogonal == <<0, 0, 3, 1>>

ChunkVecs == {VecSame, VecHalf, VecOrthogonal}

DocVecs == {VecSame, VecOrthogonal}

(* Texts as the sequences of their lexemes: stop words leave none *)
QueryText == <<"refund", "policy">>

StopWordsOnly == <<>>

QueryTexts == {QueryText, StopWordsOnly}

ChunkTexts == { <<"refund", "policy">>, <<"refund", "form">>, <<"hello">> }

Dot(a, b) == a[1] * b[1] + a[2] * b[2] + a[3] * b[3] + a[4] * b[4]

(* 1 - (a <=> b), in thousandths *)
Similarity(a, b) == (1000 * Dot(a, b)) \div Dot(a, a)

(* to_tsvector('english', text): the words of the text *)
to_tsvector(t) == { t[i] : i \in 1..Len(t) }

(* plainto_tsquery('english', text): the words of the query joined by & *)
plainto_tsquery(t) == [op |-> "&", terms |-> { t[i] : i \in 1..Len(t) }]

(* The query with every & left as it is *)
query_tsquery_or_Unreplaced(query_tsquery_and) == query_tsquery_and

(* to_tsquery('english', replace(query_tsquery_and::text, ' & ', ' | ')) *)
query_tsquery_or(query_tsquery_and) == [op |-> "|", terms |-> query_tsquery_and.terms]

(* tsvector @@ tsquery: every word of an & query, some word of an | query; a
   query without words matches nothing *)
Matches(tsv, q) ==
  /\ q.terms # {}
  /\ IF q.op = "&" THEN q.terms \subseteq tsv ELSE q.terms \cap tsv # {}

(* bm25_rank: ts_rank_cd is 0 where the text does not match the query and
   otherwise counts a tenth for every occurrence of a query word; normalisation
   32 maps rank to rank / (rank + 1); thousandths *)
Occurrences(t, q) == Cardinality({ i \in 1..Len(t) : t[i] \in q.terms })

bm25_rank(t, q) ==
  LET rank == IF Matches(to_tsvector(t), q) THEN 100 * Occurrences(t, q) ELSE 0
  IN  (1000 * rank) \div (rank + 1000)

(* The rows in any order, cut after n *)
RECURSIVE OrderDescLimit_Unordered(_, _, _)
OrderDescLimit_Unordered(S, key, n) ==
  IF S = {} \/ n = 0 THEN {<<>>}
  ELSE UNION { { <<x>> \o r : r \in OrderDescLimit_Unordered(S \ {x}, key, n - 1) } : x \in S }

(* ORDER BY key DESC LIMIT n: the rows in some non-increasing order of the key
   (rows of equal key in any order), cut after n; key maps every row to its key *)
RECURSIVE OrderDescLimit(_, _, _)
OrderDescLimit(S, key, n) ==
  IF S = {} \/ n = 0 THEN {<<>>}
  ELSE UNION { { <<x>> \o r : r \in OrderDescLimit(S \ {x}, key, n - 1) } :
                 x \in { y \in S : \A z \in S : key[y] >= key[z] } }

DocOf(docs, c) == CHOOSE d \in docs : d.id = c.document_id

(* The threshold compared with >= *)
PassesThreshold_Inclusive(score, threshold) == score >= threshold

PassesThreshold(score, threshold) == score > threshold

(* The company condition left out of the WHERE clause *)
CompanyMatches_Unfiltered(d, filter) == TRUE

CompanyMatches(d, filter) == filter = NULL \/ d.company_id = filter

DOC_LIMIT == 10

(* find_relevant_documents with ORDER BY similarity, ascending *)
find_relevant_documents_Ascending(docs, query_embedding, similarity_threshold, company_id_filter) ==
  LET hits == { [id |-> d.id, similarity |-> Similarity(d.document_embedding, query_embedding)] :
                  d \in { x \in docs :
                            /\ x.document_embedding # NullVector
                            /\ CompanyMatches(x, company_id_filter)
                            /\ PassesThreshold(Similarity(x.document_embedding, query_embedding),
                                               similarity_threshold) } }
  IN  OrderDescLimit(hits, [h \in hits |-> 0 - h.similarity], DOC_LIMIT)

(* find_relevant_documents: the possible result sequences *)
find_relevant_documents(docs, query_embedding, similarity_threshold, company_id_filter) ==
  LET hits == { [id |-> d.id, similarity |-> Similarity(d.document_embedding, query_embedding)] :
                  d \in { x \in docs :
                            /\ x.document_embedding # NullVector
                            /\ CompanyMatches(x, company_id_filter)
                            /\ PassesThreshold(Similarity(x.document_embedding, query_embedding),
                                               similarity_threshold) } }
  IN  OrderDescLimit(hits, [h \in hits |-> h.similarity], DOC_LIMIT)

(* d.id = ANY(relevant_doc_ids) alone: no row where the array is NULL *)
InRelevantDocs_NoFallback(relevant_doc_ids, id) ==
  \E i \in 1..Len(relevant_doc_ids) : relevant_doc_ids[i] = id

(* relevant_doc_ids IS NULL OR d.id = ANY(relevant_doc_ids) *)
InRelevantDocs(relevant_doc_ids, id) ==
  \/ relevant_doc_ids = <<>>
  \/ \E i \in 1..Len(relevant_doc_ids) : relevant_doc_ids[i] = id

(* The CTE vector_results of hybrid_search_simple *)
vector_results(docs, chks, query_embedding, match_threshold, filter) ==
  { c \in chks :
      /\ \E d \in docs : d.id = c.document_id
      /\ c.embedding # NullVector
      /\ PassesThreshold(Similarity(c.embedding, query_embedding), match_threshold)
      /\ CompanyMatches(DocOf(docs, c), filter) }

(* The CTE vector_results of smart_hybrid_search: the same with the condition
   on relevant_doc_ids, the array ARRAY_AGG built, the empty sequence standing
   for the NULL it gives over no row *)
smart_vector_results(docs, chks, query_embedding, match_threshold, filter, relevant_doc_ids) ==
  { c \in vector_results(docs, chks, query_embedding, match_threshold, filter) :
      InRelevantDocs(relevant_doc_ids, c.document_id) }

(* CASE ... END as rank_method, with the lexical score looked at first *)
rank_method_ScoreFirst(is_boolean_match, bm25_score) ==
  IF bm25_score > 0 THEN "partial_keyword"
  ELSE IF is_boolean_match THEN "hybrid" ELSE "vector_only"

(* CASE ... END as rank_method *)
rank_method(is_boolean_match, bm25_score) ==
  IF is_boolean_match THEN "hybrid"
  ELSE IF bm25_score > 0 THEN "partial_keyword" ELSE "vector_only"

(* The CTE scored_results and the final SELECT list; document_similarity is a
   nullable column: <<>> for NULL, <<x>> for the number x *)
ScoredRow(docs, c, query_text, query_embedding, bm25_weight, vector_weight) ==
  LET query_tsquery_and == plainto_tsquery(query_text)
      bm25   == bm25_rank(c.chunk_text, query_tsquery_or(query_tsquery_and))
      vscore == Similarity(c.embedding, query_embedding)
      isBool == Matches(to_tsvector(c.chunk_text), query_tsquery_and)
      d      == DocOf(docs, c)
  IN  [id |-> c.id, document_id |-> c.document_id, chunk_text |-> c.chunk_text,
       chunk_index |-> c.chunk_index, bm25_score |-> bm25, vector_score |-> vscore,
       combined_score |-> bm25 * bm25_weight + vscore * vector_weight,
       document_similarity |->
         IF d.document_embedding = NullVector THEN <<>>
         ELSE <<Similarity(d.document_embedding, query_embedding)>>,
       rank_method |-> rank_method(isBool, bm25)]

(* The columns of hybrid_search_simple: no document_similarity *)
SimpleRow(x) == [f \in (DOMAIN x) \ {"document_similarity"} |-> x[f]]

(* hybrid_search_simple: the possible results *)
hybrid_search_simple(docs, chks, r) ==
  LET scored == { SimpleRow(ScoredRow(docs, c, r.query_text, r.query_embedding,
                                      r.bm25_weight, r.vector_weight)) :
                    c \in vector_results(docs, chks, r.query_embedding, r.match_threshold,
                                         r.filter_company_id) }
  IN  OrderDescLimit(scored, [x \in scored |-> x.combined_score], r.match_count)

(* smart_hybrid_search: the possible results *)
smart_hybrid_search(docs, chks, r) ==
  UNION { LET relevant == [i \in 1..Len(found) |-> found[i].id]
              scored == { ScoredRow(docs, c, r.query_text, r.query_embedding,
                                    r.bm25_weight, r.vector_weight) :
                            c \in smart_vector_results(docs, chks, r.query_embedding,
                                                       r.match_threshold, r.filter_company_id,
                                                       relevant) }
          IN  OrderDescLimit(scored, [x \in scored |-> x.combined_score], r.match_count) :
          found \in find_relevant_documents(docs, r.query_embedding,
                                            r.document_similarity_threshold,
                                            r.filter_company_id) }

SearchResults(docs, chks, r) ==
  IF r.fn = "smart_hybrid_search" THEN smart_hybrid_search(docs, chks, r)
  ELSE hybrid_search_simple(docs, chks, r)

(* The stores explored: up to MaxDocs documents, each of some company, with or
   without a summary embedding, with no chunk or one chunk. Document ids are
   interchangeable, so the stores are enumerated up to renaming of documents. *)
ChunkLists ==
  {<<>>} \cup { << [embedding |-> v, chunk_text |-> t] >> : v \in ChunkVecs, t \in ChunkTexts }

DocConfigs ==
  [company_id : Companies, document_embedding : DocVecs \cup {NullVector},
   chunk_list : ChunkLists]

RECURSIVE SetToSeq(_)
SetToSeq(S) ==
  IF S = {} THEN <<>>
  ELSE LET x == CHOOSE y \in S : TRUE IN <<x>> \o SetToSeq(S \ {x})

DocConfigSeq == SetToSeq(DocConfigs)

StoreDocuments(cfgs) ==
  { [id |-> i, company_id |-> cfgs[i].company_id, content |-> <<>>,
     document_embedding |-> cfgs[i].document_embedding] : i \in 1..Len(cfgs) }

StoreChunks(cfgs) ==
  UNION { { [id |-> <<i, j - 1>>, document_id |-> i, chunk_index |-> j - 1,
             chunk_text |-> cfgs[i].chunk_list[j].chunk_text,
             embedding |-> cfgs[i].chunk_list[j].embedding] :
             j \in 1..Len(cfgs[i].chunk_list) } : i \in 1..Len(cfgs) }

InitSearch ==
  /\ IdleChunk /\ IdleEmbed /\ IdleUpload /\ IdleSearch /\ IdleRest
  /\ \E n \in 0..MaxDocs :
       \E idx \in [1..n -> 1..Len(DocConfigSeq)] :
         /\ \A i \in 1..(n - 1) : idx[i] <= idx[i + 1]
         /\ documents = StoreDocuments([i \in 1..n |-> DocConfigSeq[idx[i]]])
         /\ document_chunks = StoreChunks([i \in 1..n |-> DocConfigSeq[idx[i]]])

(* The stores explored hold every assignment of the two companies to the
   documents, so the company a search is made for is the first of them *)
RequestCompanies == {"A"}

(* Arguments the chat route passes (thousandths; weights in hundredths) *)
MATCH_THRESHOLD == 500

MATCH_COUNT == 5

DOCUMENT_SIMILARITY_THRESHOLD == 600

BM25_WEIGHT == 30

VECTOR_WEIGHT == 70

Request(via, fn, message, threshold, count, filter, bw, vw) ==
  [via |-> via, fn |-> fn, query_text |-> message, query_embedding |-> QueryVec,
   match_threshold |-> threshold, match_count |-> count, filter_company_id |-> filter,
   document_similarity_threshold |-> DOCUMENT_SIMILARITY_THRESHOLD,
   bm25_weight |-> bw, vector_weight |-> vw]

(* POST /api/chat, the search step: the query text is the message, the function
   and the weights follow ENABLE_DOCUMENT_EMBEDDINGS and ENABLE_BM25, the tenant
   is the request's companyId. One call per explored store: a call reads the store and leaves it
   as it is. *)
ChatSearch ==
  /\ req.via = "none"
  /\ \E message \in QueryTexts, companyId \in RequestCompanies,
        useDocumentEmbeddings \in BOOLEAN, useBM25 \in BOOLEAN :
       LET r == Request("route",
                        IF useDocumentEmbeddings THEN "smart_hybrid_search"
                        ELSE "hybrid_search_simple",
                        message, MATCH_THRESHOLD, MATCH_COUNT, companyId,
                        IF useBM25 THEN BM25_WEIGHT ELSE 0,
                        IF useBM25 THEN VECTOR_WEIGHT ELSE 100)
       IN  /\ req' = r
           /\ rows' \in SearchResults(documents, document_chunks, r)
  /\ UNCHANGED <<chunkVars, embedVars, storeVars, uploadVars, restVars>>

(* The search functions called with arguments of the caller's choice *)
RpcSearch ==
  /\ req.via = "none"
  /\ \E fn \in {"hybrid_search_simple", "smart_hybrid_search"},
        filter \in RequestCompanies \cup {NULL}, threshold \in {0}, count \in {1} :
       LET r == Request("rpc", fn, QueryText, threshold, count, filter,
                        BM25_WEIGHT, VECTOR_WEIGHT)
       IN  /\ req' = r
           /\ rows' \in SearchResults(documents, document_chunks, r)
  /\ UNCHANGED <<chunkVars, embedVars, storeVars, uploadVars, restVars>>

NextSearch ==
  \/ ChatSearch
  \/ RpcSearch

SpecSearch == InitSearch /\ [][NextSearch]_vars

ChunkOfRow(row) == CHOOSE c \in document_chunks : c.id = row.id

----------------------------------------------------------------------------
(* C9: no chunk whose cosine similarity to the query vector is <= match_threshold
   is among the rows a search returns, whatever its lexical score. *)
C9_ThresholdRespected ==
  req.via # "none" =>
    \A i \in 1..Len(rows) :
      /\ \E c \in document_chunks : c.id = rows[i].id
      /\ Similarity(ChunkOfRow(rows[i]).embedding, req.query_embedding) > req.match_threshold

(* A chunk of the tenant that holds every query word and sits exactly on the
   threshold was left out although the limit was not reached *)
C9_Witness ==
  /\ req.via # "none"
  /\ Len(rows) >= 1 /\ Len(rows) < req.match_count
  /\ \E c \in document_chunks :
       /\ DocOf(documents, c).company_id = req.filter_company_id
       /\ Similarity(c.embedding, req.query_embedding) = req.match_threshold
       /\ Matches(to_tsvector(c.chunk_text), plainto_tsquery(req.query_text))
       /\ \A i \in 1..Len(rows) : rows[i].id # c.id

(* The store without the documents of the companies other than c *)
TenantDocuments(c) == { d \in documents : d.company_id = c }

TenantChunks(c) ==
  { k \in document_chunks : \E d \in TenantDocuments(c) : d.id = k.document_id }

(* C10: every row the chat route's search returns belongs to a document of the
   request's company, and the result is one the same call gives on the store
   without the documents of other companies. *)
C10_TenantIsolation ==
  req.via = "route" =>
    /\ \A i \in 1..Len(rows) :
         \E d \in documents : d.id = rows[i].document_id /\ d.company_id = req.filter_company_id
    /\ rows \in SearchResults(TenantDocuments(req.filter_company_id),
                              TenantChunks(req.filter_company_id), req)

(* A search for one company returned rows while another company's document holds
   a chunk above the threshold *)
C10_Witness ==
  /\ req.via = "route"
  /\ Len(rows) >= 1
  /\ \E c \in document_chunks :
       /\ DocOf(documents, c).company_id # req.filter_company_id
       /\ Similarity(c.embedding, req.query_embedding) > req.match_threshold

(* The words of a returned row's chunk and of the request's query *)
RowWords(row) == to_tsvector(ChunkOfRow(row).chunk_text)

QueryWords == { req.query_text[i] : i \in 1..Len(req.query_text) }

(* C11: a returned chunk that holds at least one but not every query word has a
   lexical score above 0: the score is taken over the OR of the query words. *)
C11_PartialMatchScores ==
  req.via # "none" =>
    \A i \in 1..Len(rows) :
      (RowWords(rows[i]) \cap QueryWords # {} /\ ~(QueryWords \subseteq RowWords(rows[i])))
        => rows[i].bm25_score > 0

(* The chat route got back a chunk that holds one of the two query words *)
C11_Witness ==
  /\ req.via = "route"
  /\ \E i \in 1..Len(rows) :
       /\ RowWords(rows[i]) \cap QueryWords # {}
       /\ ~(QueryWords \subseteq RowWords(rows[i]))
       /\ rows[i].bm25_score > 0

(* A row's chunk holds every word of a query that has words *)
HoldsEveryQueryWord(row) == QueryWords # {} /\ QueryWords \subseteq RowWords(row)

(* C12: every returned row is tagged hybrid exactly when its chunk holds every
   query word, partial_keyword exactly when its lexical score is above 0 and it
   does not, vector_only exactly when its lexical score is 0. *)
C12_RankMethod ==
  req.via # "none" =>
    \A i \in 1..Len(rows) :
      /\ rows[i].rank_method \in {"hybrid", "partial_keyword", "vector_only"}
      /\ rows[i].rank_method = "hybrid" <=> HoldsEveryQueryWord(rows[i])
      /\ rows[i].rank_method = "partial_keyword"
           <=> (rows[i].bm25_score > 0 /\ ~HoldsEveryQueryWord(rows[i]))
      /\ rows[i].rank_method = "vector_only" <=> rows[i].bm25_score = 0

(* One result holds a row of each of two tags, one of them hybrid *)
C12_Witness ==
  /\ req.via # "none"
  /\ \E i, j \in 1..Len(rows) :
       /\ rows[i].rank_method = "hybrid"
       /\ rows[j].rank_method \in {"partial_keyword", "vector_only"}

(* The chunks a search may return: those of the tenant above the vector
   threshold and, for the prefiltered search with a prefilter that found
   documents, those of the documents it found *)
PrefilterHits ==
  { d \in documents :
      /\ d.document_embedding # NullVector
      /\ req.filter_company_id \in {NULL, d.company_id}
      /\ Similarity(d.document_embedding, req.query_embedding)
           > req.document_similarity_threshold }

Candidates ==
  { c \in document_chunks :
      /\ c.embedding # NullVector
      /\ Similarity(c.embedding, req.query_embedding) > req.match_threshold
      /\ \E d \in documents :
           /\ d.id = c.document_id
           /\ req.filter_company_id \in {NULL, d.company_id}
           /\ (req.fn = "smart_hybrid_search" /\ PrefilterHits # {}) => d \in PrefilterHits }

Fused(c) ==
  bm25_rank(c.chunk_text, [op |-> "|", terms |-> QueryWords]) * req.bm25_weight
    + Similarity(c.embedding, req.query_embedding) * req.vector_weight

(* C13: every returned row carries bm25_score*bm25_weight +
   vector_score*vector_weight as its combined_score, the rows are in
   non-increasing order of it, there are at most match_count of them, and they
   are the highest-scoring candidates. *)
C13_FusedOrderLimit ==
  req.via # "none" =>
    /\ \A i \in 1..Len(rows) :
         /\ rows[i].combined_score
              = rows[i].bm25_score * req.bm25_weight + rows[i].vector_score * req.vector_weight
         /\ rows[i].combined_score = Fused(ChunkOfRow(rows[i]))
         /\ ChunkOfRow(rows[i]) \in Candidates
    /\ \A i \in 1..(Len(rows) - 1) : rows[i].combined_score >= rows[i + 1].combined_score
    /\ \A i, j \in 1..Len(rows) : rows[i].id = rows[j].id => i = j
    /\ Len(rows) = Min(req.match_count, Cardinality(Candidates))
    /\ \A c \in Candidates :
         (\A i \in 1..Len(rows) : rows[i].id # c.id)
           => \A i \in 1..Len(rows) : rows[i].combined_score >= Fused(c)

(* The limit cut off a candidate of a lower score than the row returned *)
C13_Witness ==
  /\ req.via # "none"
  /\ Len(rows) = req.match_count
  /\ \E c \in Candidates :
       /\ \A i \in 1..Len(rows) : rows[i].id # c.id
       /\ Fused(c) < rows[Len(rows)].combined_score

(* A result of smart_hybrid_search without its document_similarity column *)
SimpleRows(res) == [i \in 1..Len(res) |-> SimpleRow(res[i])]

(* C15: where the prefilter finds no document, smart_hybrid_search returns what
   hybrid_search_simple returns for the same arguments: the same chunks with
   the same scores in the same order. *)
C15_EmptyPrefilterFallsBack ==
  (req.via # "none" /\ req.fn = "smart_hybrid_search" /\ PrefilterHits = {}) =>
    /\ SimpleRows(rows) \in hybrid_search_simple(documents, document_chunks, req)
    /\ { SimpleRows(r) : r \in smart_hybrid_search(documents, document_chunks, req) }
         = hybrid_search_simple(documents, document_chunks, req)

(* The prefilter found nothing, a document of the tenant has a summary
   embedding, and the prefiltered search returned rows *)
C15_Witness ==
  /\ req.via = "route" /\ req.fn = "smart_hybrid_search"
  /\ PrefilterHits = {}
  /\ \E d \in documents :
       d.company_id = req.filter_company_id /\ d.document_embedding # NullVector
  /\ Len(rows) >= 1

(* C16: whenever the unfiltered search has a chunk to return for the tenant,
   the prefiltered search with the same arguments returns at least one. *)
C16_PrefilterNeverStarves ==
  (req.via # "none" /\ req.fn = "smart_hybrid_search") =>
    ((\E r \in hybrid_search_simple(documents, document_chunks, req) : Len(r) >= 1)
       => Len(rows) >= 1)

----------------------------------------------------------------------------
(* find_relevant_documents called on its own, over stores of up to
   MaxPrefilterDocs documents *)

MaxPrefilterDocs == 15

(* Summary embeddings of squared length 10 whose similarities to QueryVec are
   1000, 900, 800, 700, 600, 500, 400, 300, 100, 0, -100, -300, -400, -500 *)
SimVecs ==
  << <<3, 1, 0, 0>>, <<3, 0, 1, 0>>, <<2, 2, 1, 1>>, <<2, 1, 2, 1>>, <<1, 3, 0, 0>>,
     <<1, 2, 2, 1>>, <<1, 1, 2, 2>>, <<0, 3, 1, 0>>, <<0, 1, 3, 0>>, <<0, 0, 3, 1>>,
     <<0, -1, 3, 0>>, <<-1, 0, 3, 0>>, <<-1, -1, 2, 2>>, <<-1, -2, 2, 1>> >>

(* Document i of a store: every document of company A or every seventh of B;
   every sixth document without a summary embedding or none; embeddings
   different from one document to the next or equal in pairs *)
PrefilterDocument(i, companies, nulls, ties) ==
  [id |-> i,
   company_id |-> IF companies = "seventh" /\ i % 7 = 0 THEN "B" ELSE "A",
   content |-> <<>>,
   document_embedding |->
     IF nulls = "sixth" /\ i % 6 = 0 THEN NullVector
     ELSE SimVecs[(((IF ties = "pairs" THEN (i + 1) \div 2 ELSE i) * 5) % Len(SimVecs)) + 1]]

InitPrefilter ==
  /\ IdleChunk /\ IdleEmbed /\ IdleUpload /\ IdleSearch
  /\ IdlePrefilter /\ IdleAssemble /\ IdleCoalesce /\ IdleLate
  /\ document_chunks = {}
  /\ \E n \in 0..MaxPrefilterDocs, companies \in {"one", "seventh"},
        nulls \in {"none", "sixth"}, ties \in {"distinct", "pairs"} :
       documents = { PrefilterDocument(i, companies, nulls, ties) : i \in 1..n }

DefaultSimilarityThreshold == 600

FindRequest(similarity_threshold, company_id_filter) ==
  [via |-> "rpc", query_embedding |-> QueryVec,
   similarity_threshold |-> similarity_threshold, company_id_filter |-> company_id_filter]

(* find_relevant_documents(query_embedding, similarity_threshold, company_id_filter) *)
FindRelevantDocuments ==
  /\ freq.via = "none"
  /\ \E similarity_threshold \in {DOCUMENT_SIMILARITY_THRESHOLD, 0, -1000},
        company_id_filter \in Companies :
       /\ freq' = FindRequest(similarity_threshold, company_id_filter)
       /\ foundDocs' \in find_relevant_documents(documents, QueryVec, similarity_threshold,
                                                  company_id_filter)
  /\ UNCHANGED <<chunkVars, embedVars, storeVars, uploadVars, searchVars, assembleVars,
                 coalesceVars, lateVars>>

(* find_relevant_documents(query_embedding): the threshold and the filter at
   their defaults, 0.6 and NULL *)
FindRelevantDocumentsDefaults ==
  /\ freq.via = "none"
  /\ freq' = FindRequest(DefaultSimilarityThreshold, NULL)
  /\ foundDocs' \in find_relevant_documents(documents, QueryVec, DefaultSimilarityThreshold,
                                             NULL)
  /\ UNCHANGED <<chunkVars, embedVars, storeVars, uploadVars, searchVars, assembleVars,
                 coalesceVars, lateVars>>

NextPrefilter ==
  \/ FindRelevantDocuments
  \/ FindRelevantDocumentsDefaults

SpecPrefilter == InitPrefilter /\ [][NextPrefilter]_vars

(* The documents a call of find_relevant_documents may return *)
Eligible ==
  { d \in documents :
      /\ d.document_embedding # NullVector
      /\ freq.company_id_filter \in {NULL, d.company_id}
      /\ Similarity(d.document_embedding, freq.query_embedding) > freq.similarity_threshold }

(* C14: find_relevant_documents returns only documents of the given tenant that
   have a summary embedding and a similarity above the threshold, at most 10 of
   them, the most similar ones, in non-increasing order of similarity. *)
C14_PrefilterContract ==
  freq.via # "none" =>
    /\ \A i \in 1..Len(foundDocs) :
         \E d \in Eligible :
           /\ d.id = foundDocs[i].id
           /\ foundDocs[i].similarity = Similarity(d.document_embedding, freq.query_embedding)
    /\ \A i, j \in 1..Len(foundDocs) : foundDocs[i].id = foundDocs[j].id => i = j
    /\ Len(foundDocs) = Min(DOC_LIMIT, Cardinality(Eligible))
    /\ \A i \in 1..(Len(foundDocs) - 1) : foundDocs[i].similarity >= foundDocs[i + 1].similarity
    /\ \A d \in Eligible :
         (\A i \in 1..Len(foundDocs) : foundDocs[i].id # d.id)
           => \A i \in 1..Len(foundDocs) :
                foundDocs[i].similarity >= Similarity(d.document_embedding, freq.query_embedding)

(* Ten documents came back while a less similar eligible one, one of another
   tenant and one without a summary embedding stayed out *)
C14_Witness ==
  /\ freq.via # "none"
  /\ Len(foundDocs) = DOC_LIMIT
  /\ \E d \in Eligible :
       Similarity(d.document_embedding, freq.query_embedding) < foundDocs[DOC_LIMIT].similarity
  /\ \E d \in documents : d.document_embedding = NullVector
  /\ \E d \in documents : d.company_id # freq.company_id_filter

----------------------------------------------------------------------------
(* POST /api/chat after the search: merging of consecutive chunks and the
   context text *)

MaxRows == 4

MaxIndex == 2

AssembleDocs == {1, 2}

Digits == <<"0", "1", "2", "3", "4", "5", "6", "7", "8", "9">>

(* The row of chunk idx of document doc as a search returns it; scoring picks
   the scores: different from chunk to chunk with some equal, or all equal *)
RowScore(doc, idx, scoring) ==
  IF scoring = "equal" THEN 700 ELSE 600 + 100 * ((doc * 3 + idx * 5) % 4)

SearchRow(doc, idx, scoring) ==
  [id |-> <<doc, idx>>, document_id |-> doc, chunk_index |-> idx,
   chunk_text |-> <<(IF doc = 1 THEN "x" ELSE "y"), Digits[idx + 1]>>,
   bm25_score |-> 0, vector_score |-> RowScore(doc, idx, scoring),
   combined_score |-> RowScore(doc, idx, scoring), document_similarity |-> <<>>,
   rank_method |-> "vector_only"]

(* The sequences of up to n different rows out of S *)
RECURSIVE RowSeqs(_, _)
RowSeqs(S, n) ==
  IF n = 0 THEN {<<>>}
  ELSE {<<>>} \cup UNION { { <<x>> \o r : r \in RowSeqs(S \ {x}, n - 1) } : x \in S }

InitAssemble ==
  /\ IdleChunk /\ IdleEmbed /\ IdleStore /\ IdleUpload /\ IdleSearch
  /\ IdlePrefilter /\ IdleCoalesce /\ IdleLate
  /\ mergedChunks = <<>> /\ context = <<>> /\ apc = "searched"
  /\ \E scoring \in {"mixed", "equal"} :
       relevantChunks \in
         RowSeqs({ SearchRow(d, i, scoring) : d \in AssembleDocs, i \in 0..MaxIndex }, MaxRows)
  /\ searchError \in IF relevantChunks = <<>> THEN BOOLEAN ELSE {FALSE}

(* Map: the keys in the order of their first set() *)
RECURSIVE MapKeys(_, _)
MapKeys(cs, n) ==
  IF n = 0 THEN <<>>
  ELSE LET keys == MapKeys(cs, n - 1)
       IN  IF \E k \in 1..Len(keys) : keys[k] = cs[n].document_id THEN keys
           ELSE Append(keys, cs[n].document_id)

(* chunksByDocument.get(documentId): the rows of the document as they came *)
chunksByDocument(cs, documentId) ==
  LET OfDoc(c) == c.document_id = documentId IN SelectSeq(cs, OfDoc)

(* chunks.sort((a, b) => a.chunk_index - b.chunk_index) left undone *)
SortByChunkIndex_NoSort(cs, n) == SubSeq(cs, 1, n)

(* chunks.sort((a, b) => a.chunk_index - b.chunk_index): the first n rows in
   ascending chunk_index, rows of equal index in the order they had *)
RECURSIVE SortByChunkIndex(_, _)
SortByChunkIndex(cs, n) ==
  IF n = 0 THEN <<>>
  ELSE LET sorted == SortByChunkIndex(cs, n - 1)
           k == Cardinality({ i \in 1..Len(sorted) : sorted[i].chunk_index <= cs[n].chunk_index })
       IN  SubSeq(sorted, 1, k) \o <<cs[n]>> \o SubSeq(sorted, k + 1, Len(sorted))

(* A gap of one index taken as consecutive *)
IsConsecutive_GapAllowed(lastInGroup, chunk) ==
  chunk.chunk_index <= lastInGroup.chunk_index + 2

(* chunks[i].chunk_index === lastInGroup.chunk_index + 1 *)
IsConsecutive(lastInGroup, chunk) == chunk.chunk_index = lastInGroup.chunk_index + 1

(* The for loop over the sorted rows of one document from row i on, with
   currentGroup; the groups in the order they are finalized *)
RECURSIVE ConsecutiveGroups(_, _, _)
ConsecutiveGroups(cs, i, currentGroup) ==
  IF i > Len(cs) THEN <<currentGroup>>
  ELSE IF IsConsecutive(currentGroup[Len(currentGroup)], cs[i])
       THEN ConsecutiveGroups(cs, i + 1, Append(currentGroup, cs[i]))
       ELSE <<currentGroup>> \o ConsecutiveGroups(cs, i + 1, <<cs[i]>>)

(* Array.prototype.join over strings *)
Join(strs, sep) ==
  IF strs = <<>> THEN <<>>
  ELSE strs[1] \o Concat([i \in 1..(Len(strs) - 1) |-> sep \o strs[i + 1]])

RECURSIVE Sum(_)
Sum(xs) == IF xs = <<>> THEN 0 ELSE Head(xs) + Sum(Tail(xs))

(* Math.max(...xs) of a list that is not empty *)
MathMax(xs) == CHOOSE m \in { xs[i] : i \in 1..Len(xs) } : \A i \in 1..Len(xs) : xs[i] <= m

(* sum / chunks.length, kept as the fraction *)
Average(xs) == [sum |-> Sum(xs), count |-> Len(xs)]

(* c.document_similarity || 0: the column is null or absent where the search
   did not compute it *)
DocumentSimilarityOrZero(c) ==
  IF c.document_similarity = <<>> THEN 0 ELSE c.document_similarity[1]

createMergedChunk(cs) ==
  LET combined == [i \in 1..Len(cs) |-> cs[i].combined_score]
      bm25     == [i \in 1..Len(cs) |-> cs[i].bm25_score]
      vector   == [i \in 1..Len(cs) |-> cs[i].vector_score]
      docsim   == [i \in 1..Len(cs) |-> DocumentSimilarityOrZero(cs[i])]
  IN  [document_id |-> cs[1].document_id,
       chunk_ids |-> [i \in 1..Len(cs) |-> cs[i].id],
       chunk_indices |-> [i \in 1..Len(cs) |-> cs[i].chunk_index],
       merged_text |-> Join([i \in 1..Len(cs) |-> cs[i].chunk_text], <<" ">>),
       avg_combined_score |-> Average(combined),
       max_combined_score |-> MathMax(combined),
       max_bm25_score |-> MathMax(bm25),
       max_vector_score |-> MathMax(vector),
       max_document_similarity |-> MathMax(docsim),
       avg_bm25_score |-> Average(bm25),
       avg_vector_score |-> Average(vector),
       avg_document_similarity |-> Average(docsim)]

(* The merged chunks one document's rows give: chunksByDocument.forEach body *)
MergedOfDocument(cs, documentId) ==
  LET mine   == chunksByDocument(cs, documentId)
      sorted == SortByChunkIndex(mine, Len(mine))
      groups == ConsecutiveGroups(sorted, 2, <<sorted[1]>>)
  IN  [g \in 1..Len(groups) |-> createMergedChunk(groups[g])]

(* mergedChunks.sort(...) left undone *)
SortByMaxCombinedScore_NoSort(ms, n) == SubSeq(ms, 1, n)

(* mergedChunks.sort((a, b) => b.max_combined_score - a.max_combined_score):
   the first n in descending score, those of equal score in the order they had *)
RECURSIVE SortByMaxCombinedScore(_, _)
SortByMaxCombinedScore(ms, n) ==
  IF n = 0 THEN <<>>
  ELSE LET sorted == SortByMaxCombinedScore(ms, n - 1)
           k == Cardinality({ i \in 1..Len(sorted) :
                                sorted[i].max_combined_score >= ms[n].max_combined_score })
       IN  SubSeq(sorted, 1, k) \o <<ms[n]>> \o SubSeq(sorted, k + 1, Len(sorted))

(* if (relevantChunks && relevantChunks.length > 0) { ... } *)
MergeChunks(cs) ==
  IF Len(cs) > 0
  THEN LET keys == MapKeys(cs, Len(cs))
           pushed == Concat([k \in 1..Len(keys) |-> MergedOfDocument(cs, keys[k])])
       IN  SortByMaxCombinedScore(pushed, Len(pushed))
  ELSE <<>>

(* mergedChunks.map((merged) => merged.merged_text).join("\n\n") *)
BuildContext(ms) ==
  IF Len(ms) > 0 THEN Join([i \in 1..Len(ms) |-> ms[i].merged_text], <<"\n", "\n">>)
  ELSE <<>>

ChatMergeChunks ==
  /\ apc = "searched"
  /\ mergedChunks' = MergeChunks(relevantChunks)
  /\ apc' = "merged"
  /\ UNCHANGED <<relevantChunks, searchError, context>>
  /\ UNCHANGED <<chunkVars, embedVars, storeVars, uploadVars, searchVars, prefilterVars,
                 coalesceVars, lateVars>>

ChatBuildContext ==
  /\ apc = "merged"
  /\ context' = BuildContext(mergedChunks)
  /\ apc' = "context"
  /\ UNCHANGED <<relevantChunks, searchError, mergedChunks>>
  /\ UNCHANGED <<chunkVars, embedVars, storeVars, uploadVars, searchVars, prefilterVars,
                 coalesceVars, lateVars>>

NextAssemble ==
  \/ ChatMergeChunks
  \/ ChatBuildContext

SpecAssemble == InitAssemble /\ [][NextAssemble]_vars

(* The retrieved row of an id, and the passages that hold an id *)
RowOfId(id) == CHOOSE i \in 1..Len(relevantChunks) : relevantChunks[i].id = id

PassagesWith(id) ==
  { p \in 1..Len(mergedChunks) :
      \E j \in 1..Len(mergedChunks[p].chunk_ids) : mergedChunks[p].chunk_ids[j] = id }

Merged == apc \in {"merged", "context"}

(* C17: two retrieved chunks of one document whose indices are i and i+1 are
   members of the same merged passage, in whatever order they were returned. *)
C17_NeighboursShareAPassage ==
  Merged =>
    \A a, b \in 1..Len(relevantChunks) :
      (/\ relevantChunks[a].document_id = relevantChunks[b].document_id
       /\ relevantChunks[b].chunk_index = relevantChunks[a].chunk_index + 1)
        => \E p \in PassagesWith(relevantChunks[a].id) : p \in PassagesWith(relevantChunks[b].id)

(* Chunk i+1 of a document was returned before chunk i with a row of another
   document between them, and one passage holds both *)
C17_Witness ==
  /\ Merged
  /\ \E a, b, c \in 1..Len(relevantChunks) :
       /\ b < c /\ c < a
       /\ relevantChunks[a].document_id = relevantChunks[b].document_id
       /\ relevantChunks[c].document_id # relevantChunks[a].document_id
       /\ relevantChunks[b].chunk_index = relevantChunks[a].chunk_index + 1
       /\ PassagesWith(relevantChunks[a].id) \cap PassagesWith(relevantChunks[b].id) # {}

(* The rows retrieved are exactly chunks 0 and 2 of document 1 *)
ZeroAndTwoRetrieved ==
  { relevantChunks[i].id : i \in 1..Len(relevantChunks) } = {<<1, 0>>, <<1, 2>>}

(* C18: every merged passage holds chunks of one document only, with indices
   rising by exactly 1 from member to member, and every retrieved chunk is in
   exactly one passage; chunks 0 and 2 of a document retrieved without chunk 1
   give two passages of one chunk each. *)
C18_PassagesAreRuns ==
  Merged =>
    /\ \A p \in 1..Len(mergedChunks) :
         LET m == mergedChunks[p] IN
         /\ Len(m.chunk_ids) >= 1 /\ Len(m.chunk_indices) = Len(m.chunk_ids)
         /\ \A j \in 1..Len(m.chunk_ids) :
              /\ \E i \in 1..Len(relevantChunks) : relevantChunks[i].id = m.chunk_ids[j]
              /\ relevantChunks[RowOfId(m.chunk_ids[j])].document_id = m.document_id
              /\ relevantChunks[RowOfId(m.chunk_ids[j])].chunk_index = m.chunk_indices[j]
         /\ \A j \in 1..(Len(m.chunk_indices) - 1) :
              m.chunk_indices[j + 1] = m.chunk_indices[j] + 1
    /\ \A i \in 1..Len(relevantChunks) :
         Cardinality(PassagesWith(relevantChunks[i].id)) = 1
    /\ ZeroAndTwoRetrieved =>
         /\ Len(mergedChunks) = 2
         /\ \A p \in 1..2 : Len(mergedChunks[p].chunk_ids) = 1

(* Chunks 0 and 2 of document 1 were retrieved without chunk 1 and merged *)
C18_Witness ==
  /\ Merged
  /\ ZeroAndTwoRetrieved
  /\ Len(mergedChunks) = 2

(* The texts of a passage's members in ascending chunk_index *)
MemberTexts(m) ==
  LET members == { i \in 1..Len(relevantChunks) :
                     \E j \in 1..Len(m.chunk_ids) : relevantChunks[i].id = m.chunk_ids[j] }
      RECURSIVE Ascending(_)
      Ascending(S) ==
        IF S = {} THEN <<>>
        ELSE LET lo == CHOOSE i \in S :
                         \A k \in S : relevantChunks[i].chunk_index <= relevantChunks[k].chunk_index
             IN  <<relevantChunks[lo].chunk_text>> \o Ascending(S \ {lo})
  IN  Ascending(members)

RECURSIVE SpaceJoined(_)
SpaceJoined(ts) ==
  IF Len(ts) = 0 THEN <<>>
  ELSE IF Len(ts) = 1 THEN ts[1]
  ELSE ts[1] \o <<" ">> \o SpaceJoined(Tail(ts))

RECURSIVE BlankLineJoined(_)
BlankLineJoined(ts) ==
  IF Len(ts) = 0 THEN <<>>
  ELSE IF Len(ts) = 1 THEN ts[1]
  ELSE ts[1] \o <<"\n", "\n">> \o BlankLineJoined(Tail(ts))

(* C19: the merged passages are in non-increasing order of max_combined_score,
   each merged_text is its members' texts joined by one space in ascending
   chunk_index, and the context is the merged_text values joined by a blank
   line in the order of the passages. *)
C19_ContextInScoreOrder ==
  apc = "context" =>
    /\ \A p \in 1..(Len(mergedChunks) - 1) :
         mergedChunks[p].max_combined_score >= mergedChunks[p + 1].max_combined_score
    /\ \A p \in 1..Len(mergedChunks) :
         /\ \A j \in 1..Len(mergedChunks[p].chunk_ids) :
              relevantChunks[RowOfId(mergedChunks[p].chunk_ids[j])].combined_score
                <= mergedChunks[p].max_combined_score
         /\ \E j \in 1..Len(mergedChunks[p].chunk_ids) :
              relevantChunks[RowOfId(mergedChunks[p].chunk_ids[j])].combined_score
                = mergedChunks[p].max_combined_score
         /\ mergedChunks[p].merged_text = SpaceJoined(MemberTexts(mergedChunks[p]))
    /\ context = BlankLineJoined([p \in 1..Len(mergedChunks) |-> mergedChunks[p].merged_text])

(* A passage of two chunks ranks first although the first passage pushed has a
   lower score, and the context holds both *)
C19_Witness ==
  /\ apc = "context"
  /\ Len(mergedChunks) >= 2
  /\ Len(mergedChunks[1].chunk_ids) >= 2
  /\ mergedChunks[1].max_combined_score > mergedChunks[2].max_combined_score
  /\ mergedChunks[1].document_id # relevantChunks[1].document_id
  /\ Len(context) > Len(mergedChunks[1].merged_text)

----------------------------------------------------------------------------
(* coalesceChunks of the summary script. Texts are sequences of character
   codes here. *)

MaxCoalesceChunks == 3

MAX_OVERLAP_SCAN == 400

MIN_OVERLAP_SCAN == 50

Newline == 10

(* Character i of a document text: no two alike, or a run of one character, or
   a phrase of 7 or of 250 characters repeated *)
TextPatterns == {"unique", "run", "phrase7", "phrase250"}

CharAt(pattern, i) ==
  CASE pattern = "unique"    -> 1000 + i
    [] pattern = "run"       -> 97
    [] pattern = "phrase7"   -> 97 + (i % 7)
    [] pattern = "phrase250" -> 97 + (i % 250)

(* Chunk j (from 0) of the text, cut the way chunkText cuts: size characters
   from j * (size - ov) *)
WindowOf(pattern, size, ov, j) == [i \in 1..size |-> CharAt(pattern, j * (size - ov) + i)]

CoalesceSizes == {500, DefaultChunkSize}

CoalesceOverlaps == {30, MIN_OVERLAP_SCAN, DefaultOverlap, MAX_OVERLAP_SCAN, 450}

InitCoalesce ==
  /\ IdleChunk /\ IdleEmbed /\ IdleStore /\ IdleUpload /\ IdleSearch
  /\ IdlePrefilter /\ IdleAssemble /\ IdleLate
  /\ ci = 0 /\ result = <<>> /\ copc = "called"
  /\ \E pattern \in TextPatterns, size \in CoalesceSizes, ov \in CoalesceOverlaps,
        n \in 0..MaxCoalesceChunks :
       /\ coalesceInput = [j \in 1..n |-> [chunk_text |-> WindowOf(pattern, size, ov, j - 1)]]
       /\ knownOverlap = ov

(* result.slice(-overlapSize) === currentChunk.slice(0, overlapSize) *)
EndMatchesStart(res, currentChunk, overlapSize) ==
  \A j \in 1..overlapSize : res[Len(res) - overlapSize + j] = currentChunk[j]

(* The inner for loop: the first overlapSize, counting down from
   min(400, result.length, currentChunk.length) to 50, at which the end of
   result is the start of currentChunk; 0 where overlapFound stays false *)
FoundOverlap(res, currentChunk) ==
  LET sizes == { k \in MIN_OVERLAP_SCAN..Min(MAX_OVERLAP_SCAN, Min(Len(res), Len(currentChunk))) :
                   EndMatchesStart(res, currentChunk, k) }
  IN  IF sizes = {} THEN 0 ELSE CHOOSE k \in sizes : \A m \in sizes : m <= k

(* The body of the outer for loop *)
Coalesced(res, currentChunk) ==
  LET overlapSize == FoundOverlap(res, currentChunk)
  IN  IF overlapSize > 0 THEN res \o Slice(currentChunk, overlapSize, Len(currentChunk))
      ELSE res \o <<Newline>> \o currentChunk

(* if (chunks.length === 0) return ""; if (chunks.length === 1) return chunks[0].chunk_text *)
CoalesceShortInput ==
  /\ copc = "called" /\ Len(coalesceInput) <= 1
  /\ result' = IF Len(coalesceInput) = 0 THEN <<>> ELSE coalesceInput[1].chunk_text
  /\ copc' = "returned"
  /\ UNCHANGED <<coalesceInput, ci, knownOverlap>>
  /\ UNCHANGED <<chunkVars, embedVars, storeVars, uploadVars, searchVars, prefilterVars,
                 assembleVars, lateVars>>

(* let result = chunks[0].chunk_text; i = 1 *)
CoalesceStart ==
  /\ copc = "called" /\ Len(coalesceInput) > 1
  /\ result' = coalesceInput[1].chunk_text
  /\ ci' = 1
  /\ copc' = "loop"
  /\ UNCHANGED <<coalesceInput, knownOverlap>>
  /\ UNCHANGED <<chunkVars, embedVars, storeVars, uploadVars, searchVars, prefilterVars,
                 assembleVars, lateVars>>

CoalesceLoopBody ==
  /\ copc = "loop" /\ ci < Len(coalesceInput)
  /\ result' = Coalesced(result, coalesceInput[ci + 1].chunk_text)
  /\ ci' = ci + 1
  /\ UNCHANGED <<coalesceInput, copc, knownOverlap>>
  /\ UNCHANGED <<chunkVars, embedVars, storeVars, uploadVars, searchVars, prefilterVars,
                 assembleVars, lateVars>>

CoalesceReturn ==
  /\ copc = "loop" /\ ci >= Len(coalesceInput)
  /\ copc' = "returned"
  /\ UNCHANGED <<coalesceInput, ci, result, knownOverlap>>
  /\ UNCHANGED <<chunkVars, embedVars, storeVars, uploadVars, searchVars, prefilterVars,
                 assembleVars, lateVars>>

NextCoalesce ==
  \/ CoalesceShortInput
  \/ CoalesceStart
  \/ CoalesceLoopBody
  \/ CoalesceReturn

SpecCoalesce == InitCoalesce /\ [][NextCoalesce]_vars

(* C20: for two chunk texts a and b where the last k characters of a are the
   first k of b, k the overlap they were cut with, coalesceChunks([a, b]) is a
   followed by b without its first k characters; coalesceChunks([c]) is c. *)
C20_CoalesceRemovesOverlap ==
  copc = "returned" =>
    /\ Len(coalesceInput) = 1 => result = coalesceInput[1].chunk_text
    /\ (/\ Len(coalesceInput) = 2
        /\ EndMatchesStart(coalesceInput[1].chunk_text, coalesceInput[2].chunk_text, knownOverlap))
         => result = coalesceInput[1].chunk_text
                       \o Slice(coalesceInput[2].chunk_text, knownOverlap,
                                Len(coalesceInput[2].chunk_text))

----------------------------------------------------------------------------
(* The offline summary job: main of generate-document-embeddings.ts.  A run
   fetches the documents without a summary embedding, then for each of them
   builds the summary, embeds it and updates the row.  The store of the job
   is the table documents; a null column is the empty tuple. *)

MaxJobDocs == 2

JobDocumentIds == 1..MaxJobDocs

(* A summary or an embedding produced for document d by run r (0: before the
   runs that are followed) *)
Produced(d, r) == <<d, r>>

JobDocument(d, done) ==
  [id |-> d,
   document_embedding |-> IF d \in done THEN Produced(d, 0) ELSE <<>>,
   document_summary |-> IF d \in done THEN Produced(d, 0) ELSE <<>>]

InitJob ==
  /\ IdleChunk /\ IdleEmbed /\ IdleUpload /\ IdleSearch
  /\ IdlePrefilter /\ IdleAssemble /\ IdleCoalesce /\ IdleAfterJob
  /\ document_chunks = {}
  /\ \E n \in 0..MaxJobDocs : \E done \in SUBSET (1..n) :
       documents = { JobDocument(d, done) : d \in 1..n }
  /\ jpc = [r \in Runs |-> "idle"] /\ jobDocuments = [r \in Runs |-> <<>>]
  /\ jdoc = [r \in Runs |-> 0]
  /\ successCount = [r \in Runs |-> 0] /\ errorCount = [r \in Runs |-> 0]
  /\ summary = [r \in Runs |-> <<>>] /\ embedding = [r \in Runs |-> <<>>]
  /\ summaryCalls = [r \in Runs |-> 0] /\ embeddingCalls = [r \in Runs |-> 0]
  /\ attempted = [r \in Runs |-> {}]
  /\ writers = [d \in JobDocumentIds |-> {}]
  /\ pendingAtStart = [r \in Runs |-> {}]

(* .from("documents").select("id, original_name").is("document_embedding", null) *)
PendingDocuments_All(docs) == { d.id : d \in docs }
PendingDocuments(docs) == { d.id : d \in { x \in docs : x.document_embedding = <<>> } }

(* The select has no ORDER BY: the rows come in any order *)
Orderings(S) ==
  { f \in [1..Cardinality(S) -> S] : \A i, j \in 1..Cardinality(S) : f[i] = f[j] => i = j }

(* catch (error) { console.error(...); errorCount++; } *)
catchError_NotCounted(count) == count
catchError(count) == count + 1

(* .update({ document_embedding, document_summary }).eq("id", doc.id) *)
UpdateDocument(docs, id, newEmbedding, newSummary) ==
  { IF d.id = id
      THEN [d EXCEPT !.document_embedding = newEmbedding, !.document_summary = newSummary]
      ELSE d : d \in docs }

CurrentDoc(r) == jobDocuments[r][jdoc[r]]

Running(r) == jpc[r] \in {"loop", "summarizing", "embedding", "updating"}

(* The fetch of main and the early return on an empty list *)
FetchDocuments(r) ==
  /\ jpc[r] = "idle"
  /\ \E order \in Orderings(PendingDocuments(documents)) :
       /\ jobDocuments' = [jobDocuments EXCEPT ![r] = order]
       /\ jpc' = [jpc EXCEPT ![r] = IF order = <<>> THEN "done" ELSE "loop"]
  /\ pendingAtStart' = [pendingAtStart EXCEPT ![r] = documents]
  /\ UNCHANGED <<jdoc, successCount, errorCount, summary, embedding, summaryCalls,
                 embeddingCalls, attempted, writers>>
  /\ UNCHANGED <<chunkVars, embedVars, storeVars, uploadVars, searchVars, prefilterVars,
                 assembleVars, coalesceVars, afterJobVars>>

(* A run started while no other run is in progress *)
JobFetch ==
  \E r \in Runs :
    /\ \A q \in Runs \ {r} : ~Running(q)
    /\ FetchDocuments(r)

(* A run started while another run is in progress *)
JobFetchDuringRun ==
  \E r \in Runs :
    /\ \E q \in Runs \ {r} : Running(q)
    /\ FetchDocuments(r)

(* if (fetchError) { ...; process.exit(1); } *)
JobFetchFails ==
  \E r \in Runs :
    /\ jpc[r] = "idle"
    /\ jpc' = [jpc EXCEPT ![r] = "exited"]
    /\ UNCHANGED <<jobDocuments, jdoc, successCount, errorCount, summary, embedding,
                   summaryCalls, embeddingCalls, attempted, writers, pendingAtStart>>
    /\ UNCHANGED <<chunkVars, embedVars, storeVars, uploadVars, searchVars, prefilterVars,
                   assembleVars, coalesceVars, afterJobVars>>

(* for (const doc of documents): the next iteration calls generateDocumentSummary *)
JobBeginDocument ==
  \E r \in Runs :
    /\ jpc[r] = "loop" /\ jdoc[r] < Len(jobDocuments[r])
    /\ jdoc' = [jdoc EXCEPT ![r] = @ + 1]
    /\ jpc' = [jpc EXCEPT ![r] = "summarizing"]
    /\ summaryCalls' = [summaryCalls EXCEPT ![r] = @ + 1]
    /\ attempted' = [attempted EXCEPT ![r] = @ \cup {jobDocuments[r][jdoc[r] + 1]}]
    /\ UNCHANGED <<jobDocuments, successCount, errorCount, summary, embedding,
                   embeddingCalls, writers, pendingAtStart>>
    /\ UNCHANGED <<chunkVars, embedVars, storeVars, uploadVars, searchVars, prefilterVars,
                   assembleVars, coalesceVars, afterJobVars>>

(* generateDocumentSummary returns; generateEmbedding(embeddingText) is called *)
JobSummarized ==
  \E r \in Runs :
    /\ jpc[r] = "summarizing"
    /\ summary' = [summary EXCEPT ![r] = Produced(CurrentDoc(r), r)]
    /\ embeddingCalls' = [embeddingCalls EXCEPT ![r] = @ + 1]
    /\ jpc' = [jpc EXCEPT ![r] = "embedding"]
    /\ UNCHANGED <<jobDocuments, jdoc, successCount, errorCount, embedding, summaryCalls,
                   attempted, writers, pendingAtStart>>
    /\ UNCHANGED <<chunkVars, embedVars, storeVars, uploadVars, searchVars, prefilterVars,
                   assembleVars, coalesceVars, afterJobVars>>

(* generateDocumentSummary throws (no chunk, chunk fetch error, completion error) *)
JobSummaryFails ==
  \E r \in Runs :
    /\ jpc[r] = "summarizing"
    /\ errorCount' = [errorCount EXCEPT ![r] = catchError(@)]
    /\ jpc' = [jpc EXCEPT ![r] = "loop"]
    /\ UNCHANGED <<jobDocuments, jdoc, successCount, summary, embedding, summaryCalls,
                   embeddingCalls, attempted, writers, pendingAtStart>>
    /\ UNCHANGED <<chunkVars, embedVars, storeVars, uploadVars, searchVars, prefilterVars,
                   assembleVars, coalesceVars, afterJobVars>>

(* generateEmbedding returns; the update of the row is sent *)
JobEmbedded ==
  \E r \in Runs :
    /\ jpc[r] = "embedding"
    /\ embedding' = [embedding EXCEPT ![r] = Produced(CurrentDoc(r), r)]
    /\ jpc' = [jpc EXCEPT ![r] = "updating"]
    /\ UNCHANGED <<jobDocuments, jdoc, successCount, errorCount, summary, summaryCalls,
                   embeddingCalls, attempted, writers, pendingAtStart>>
    /\ UNCHANGED <<chunkVars, embedVars, storeVars, uploadVars, searchVars, prefilterVars,
                   assembleVars, coalesceVars, afterJobVars>>

(* generateEmbedding throws *)
JobEmbeddingFails ==
  \E r \in Runs :
    /\ jpc[r] = "embedding"
    /\ errorCount' = [errorCount EXCEPT ![r] = catchError(@)]
    /\ jpc' = [jpc EXCEPT ![r] = "loop"]
    /\ UNCHANGED <<jobDocuments, jdoc, successCount, summary, embedding, summaryCalls,
                   embeddingCalls, attempted, writers, pendingAtStart>>
    /\ UNCHANGED <<chunkVars, embedVars, storeVars, uploadVars, searchVars, prefilterVars,
                   assembleVars, coalesceVars, afterJobVars>>

(* The update succeeds: successCount++ *)
JobUpdated ==
  \E r \in Runs :
    /\ jpc[r] = "updating"
    /\ documents' = UpdateDocument(documents, CurrentDoc(r), embedding[r], summary[r])
    /\ writers' = [writers EXCEPT ![CurrentDoc(r)] = @ \cup {r}]
    /\ successCount' = [successCount EXCEPT ![r] = @ + 1]
    /\ jpc' = [jpc EXCEPT ![r] = "loop"]
    /\ UNCHANGED <<jobDocuments, jdoc, errorCount, summary, embedding, summaryCalls,
                   embeddingCalls, attempted, pendingAtStart>>
    /\ UNCHANGED <<chunkVars, embedVars, document_chunks, uploadVars, searchVars,
                   prefilterVars, assembleVars, coalesceVars, afterJobVars>>

(* if (updateError) throw new Error(...): the row is left as it was *)
JobUpdateFails ==
  \E r \in Runs :
    /\ jpc[r] = "updating"
    /\ errorCount' = [errorCount EXCEPT ![r] = catchError(@)]
    /\ jpc' = [jpc EXCEPT ![r] = "loop"]
    /\ UNCHANGED <<jobDocuments, jdoc, successCount, summary, embedding, summaryCalls,
                   embeddingCalls, attempted, writers, pendingAtStart>>
    /\ UNCHANGED <<chunkVars, embedVars, storeVars, uploadVars, searchVars, prefilterVars,
                   assembleVars, coalesceVars, afterJobVars>>

(* The loop is over: the counts are printed and main returns *)
JobFinish ==
  \E r \in Runs :
    /\ jpc[r] = "loop" /\ jdoc[r] >= Len(jobDocuments[r])
    /\ jpc' = [jpc EXCEPT ![r] = "done"]
    /\ UNCHANGED <<jobDocuments, jdoc, successCount, errorCount, summary, embedding,
                   summaryCalls, embeddingCalls, attempted, writers, pendingAtStart>>
    /\ UNCHANGED <<chunkVars, embedVars, storeVars, uploadVars, searchVars, prefilterVars,
                   assembleVars, coalesceVars, afterJobVars>>

(* Runs of the job that follow one another *)
NextJob ==
  \/ JobFetch
  \/ JobFetchFails
  \/ JobBeginDocument
  \/ JobSummarized
  \/ JobSummaryFails
  \/ JobEmbedded
  \/ JobEmbeddingFails
  \/ JobUpdated
  \/ JobUpdateFails
  \/ JobFinish

SpecJob == InitJob /\ [][NextJob]_vars

(* Runs of the job that may also start while another is in progress *)
NextJobConcurrent ==
  \/ JobFetch
  \/ JobFetchDuringRun
  \/ JobFetchFails
  \/ JobBeginDocument
  \/ JobSummarized
  \/ JobSummaryFails
  \/ JobEmbedded
  \/ JobEmbeddingFails
  \/ JobUpdated
  \/ JobUpdateFails
  \/ JobFinish

SpecJobConcurrent == InitJob /\ [][NextJobConcurrent]_vars

IdsOf(order) == { order[i] : i \in 1..Len(order) }

RowOf(docs, id) == CHOOSE d \in docs : d.id = id

(* C21: a failure while summarizing, embedding or updating one document is
   caught and counted: the failing step changes no row, every document of the
   list is still processed, and the run ends with
   successCount + errorCount = number of documents fetched. *)
C21_FailuresCounted ==
  /\ [](\A r \in Runs :
          jpc[r] = "done" =>
            /\ successCount[r] + errorCount[r] = Len(jobDocuments[r])
            /\ attempted[r] = IdsOf(jobDocuments[r]))
  /\ [][\A r \in Runs :
          (/\ jpc[r] \in {"summarizing", "embedding", "updating"} /\ jpc'[r] = "loop"
           /\ successCount'[r] = successCount[r])
            => /\ documents' = documents
               /\ errorCount'[r] = errorCount[r] + 1]_vars

(* A run that failed on its first document and succeeded on its second *)
C21_Witness ==
  \E r \in Runs :
    /\ jpc[r] = "done" /\ Len(jobDocuments[r]) = 2
    /\ errorCount[r] = 1 /\ successCount[r] = 1
    /\ RowOf(documents, jobDocuments[r][1]).document_embedding = <<>>
    /\ RowOf(documents, jobDocuments[r][2]).document_embedding # <<>>

(* C22: a run only processes documents whose document_embedding is null when
   it starts, no step changes a row that has an embedding, and a run started
   after a run that ended without error, with no run in between, returns at
   once: no summary call, no embedding call, no row changed. *)
C22_Idempotent ==
  /\ [](\A r \in Runs :
          \A id \in attempted[r] :
            \E d \in pendingAtStart[r] : d.id = id /\ d.document_embedding = <<>>)
  /\ [][\A d \in documents : d.document_embedding # <<>> => d \in documents']_vars
  /\ [][\A q \in Runs :
          (/\ jpc[q] = "idle" /\ jpc'[q] \notin {"idle", "exited"}
           /\ \E r \in Runs \ {q} : jpc[r] = "done" /\ errorCount[r] = 0)
            => /\ jpc'[q] = "done" /\ jobDocuments'[q] = <<>>
               /\ documents' = documents
               /\ summaryCalls'[q] = 0 /\ embeddingCalls'[q] = 0]_vars
  /\ [](\A q \in Runs : (jpc[q] = "done" /\ jobDocuments[q] = <<>>)
                          => summaryCalls[q] = 0 /\ embeddingCalls[q] = 0)

(* A run has written a document and ended without error, the next run has
   returned at once, and a row that had an embedding before still has it *)
C22_Witness ==
  \E r \in Runs, q \in Runs :
    /\ r # q /\ jpc[r] = "done" /\ errorCount[r] = 0 /\ successCount[r] >= 1
    /\ jpc[q] = "done" /\ jobDocuments[q] = <<>> /\ pendingAtStart[q] = documents
    /\ \E d \in documents : d.document_embedding = Produced(d.id, 0)

(* C23: when two runs execute at the same time, no document is being
   summarized by both at once and no document's summary and embedding are
   written by more than one run. *)
C23_RunsDoNotCollide ==
  /\ \A r \in Runs, q \in Runs :
       (r # q /\ jpc[r] = "summarizing" /\ jpc[q] = "summarizing")
         => CurrentDoc(r) # CurrentDoc(q)
  /\ \A d \in JobDocumentIds : Cardinality(writers[d]) <= 1

----------------------------------------------------------------------------
(* The quality scorer (lib/chat/quality-scorer).  Strings are sequences of
   characters; scores are in ten-thousandths (0.3 is 3000). *)

(* "does not contain" *)
RefusalDoesNotContain ==
  <<"d", "o", "e", "s", " ", "n", "o", "t", " ", "c", "o", "n", "t", "a", "i", "n">>

(* "I don't have" *)
RefusalIDontHave ==
  <<"I", " ", "d", "o", "n", "'", "t", " ", "h", "a", "v", "e">>

(* "cannot find" *)
RefusalCannotFind ==
  <<"c", "a", "n", "n", "o", "t", " ", "f", "i", "n", "d">>

(* "no information" *)
RefusalNoInformation ==
  <<"n", "o", " ", "i", "n", "f", "o", "r", "m", "a", "t", "i", "o", "n">>

(* "I'm sorry" *)
RefusalImSorry ==
  <<"I", "'", "m", " ", "s", "o", "r", "r", "y">>

(* "I cannot find that in the documents.": a short refusal *)
ResponseCannotFind ==
  <<"I", " ", "c", "a", "n", "n", "o", "t", " ", "f", "i", "n", "d", " ", "t", "h", "a",
    "t", " ", "i", "n", " ", "t", "h", "e", " ", "d", "o", "c", "u", "m", "e", "n", "t",
    "s", ".">>

(* "The context DOES NOT CONTAIN shipping prices.": a refusal in capitals *)
ResponseUpperCase ==
  <<"T", "h", "e", " ", "c", "o", "n", "t", "e", "x", "t", " ", "D", "O", "E", "S", " ",
    "N", "O", "T", " ", "C", "O", "N", "T", "A", "I", "N", " ", "s", "h", "i", "p", "p",
    "i", "n", "g", " ", "p", "r", "i", "c", "e", "s", ".">>

(* "there is no informational leaflet": a refusal phrase inside a longer word; no capital, no punctuation *)
ResponseNoInformational ==
  <<"t", "h", "e", "r", "e", " ", "i", "s", " ", "n", "o", " ", "i", "n", "f", "o", "r",
    "m", "a", "t", "i", "o", "n", "a", "l", " ", "l", "e", "a", "f", "l", "e", "t">>

(* "Returns are accepted within thirty days of delivery.": a short answer *)
ResponseAnswer ==
  <<"R", "e", "t", "u", "r", "n", "s", " ", "a", "r", "e", " ", "a", "c", "c", "e", "p",
    "t", "e", "d", " ", "w", "i", "t", "h", "i", "n", " ", "t", "h", "i", "r", "t", "y",
    " ", "d", "a", "y", "s", " ", "o", "f", " ", "d", "e", "l", "i", "v", "e", "r", "y", ".">>

(* "I'm sorry, the refund policy about returns accepted within t ...": a refusal that repeats the words of PolicyContext *)
ResponseSorryFromContext ==
  <<"I", "'", "m", " ", "s", "o", "r", "r", "y", ",", " ", "t", "h", "e", " ", "r", "e",
    "f", "u", "n", "d", " ", "p", "o", "l", "i", "c", "y", " ", "a", "b", "o", "u", "t",
    " ", "r", "e", "t", "u", "r", "n", "s", " ", "a", "c", "c", "e", "p", "t", "e", "d",
    " ", "w", "i", "t", "h", "i", "n", " ", "t", "h", "i", "r", "t", "y", " ", "d", "a",
    "y", "s", " ", "a", "f", "t", "e", "r", " ", "d", "e", "l", "i", "v", "e", "r", "y",
    " ", "f", "o", "r", " ", "o", "n", "l", "i", "n", "e", " ", "o", "r", "d", "e", "r",
    "s", " ", "c", "o", "v", "e", "r", "s", " ", "s", "h", "i", "p", "p", "i", "n", "g",
    " ", "c", "o", "s", "t", "s", ",", " ", "w", "a", "r", "r", "a", "n", "t", "y", " ",
    "c", "l", "a", "i", "m", "s", " ", "a", "n", "d", " ", "c", "u", "s", "t", "o", "m",
    "e", "r", "s", " ", "a", "b", "r", "o", "a", "d", " ", "o", "n", "l", "y", " ", "p",
    "a", "r", "t", "l", "y", ".">>

(* "The refund policy about returns accepted within thirty days  ...": an answer that repeats the words of PolicyContext *)
ResponseAnswerFromContext ==
  <<"T", "h", "e", " ", "r", "e", "f", "u", "n", "d", " ", "p", "o", "l", "i", "c", "y",
    " ", "a", "b", "o", "u", "t", " ", "r", "e", "t", "u", "r", "n", "s", " ", "a", "c",
    "c", "e", "p", "t", "e", "d", " ", "w", "i", "t", "h", "i", "n", " ", "t", "h", "i",
    "r", "t", "y", " ", "d", "a", "y", "s", " ", "a", "f", "t", "e", "r", " ", "d", "e",
    "l", "i", "v", "e", "r", "y", " ", "f", "o", "r", " ", "o", "n", "l", "i", "n", "e",
    " ", "o", "r", "d", "e", "r", "s", " ", "c", "o", "v", "e", "r", "s", " ", "s", "h",
    "i", "p", "p", "i", "n", "g", " ", "c", "o", "s", "t", "s", ",", " ", "w", "a", "r",
    "r", "a", "n", "t", "y", " ", "c", "l", "a", "i", "m", "s", " ", "a", "n", "d", " ",
    "c", "u", "s", "t", "o", "m", "e", "r", "s", " ", "a", "b", "r", "o", "a", "d", " ",
    "o", "n", "l", "y", " ", "p", "a", "r", "t", "l", "y", ".">>

(* "I'm sorry, no orders exist": a refusal that shares one word with OrdersContext *)
ResponseSorryOrders ==
  <<"I", "'", "m", " ", "s", "o", "r", "r", "y", ",", " ", "n", "o", " ", "o", "r", "d",
    "e", "r", "s", " ", "e", "x", "i", "s", "t">>

(* "Refund policy: returns accepted within thirty days after del ...": a retrieved passage *)
PolicyContext ==
  <<"R", "e", "f", "u", "n", "d", " ", "p", "o", "l", "i", "c", "y", ":", " ", "r", "e",
    "t", "u", "r", "n", "s", " ", "a", "c", "c", "e", "p", "t", "e", "d", " ", "w", "i",
    "t", "h", "i", "n", " ", "t", "h", "i", "r", "t", "y", " ", "d", "a", "y", "s", " ",
    "a", "f", "t", "e", "r", " ", "d", "e", "l", "i", "v", "e", "r", "y", ".", " ", "O",
    "n", "l", "i", "n", "e", " ", "o", "r", "d", "e", "r", "s", " ", "i", "n", "c", "l",
    "u", "d", "e", " ", "s", "h", "i", "p", "p", "i", "n", "g", " ", "c", "o", "s", "t",
    "s", ";", " ", "w", "a", "r", "r", "a", "n", "t", "y", " ", "c", "l", "a", "i", "m",
    "s", " ", "f", "r", "o", "m", " ", "c", "u", "s", "t", "o", "m", "e", "r", "s", " ",
    "a", "b", "r", "o", "a", "d", " ", "a", "r", "e", " ", "h", "a", "n", "d", "l", "e",
    "d", " ", "s", "e", "p", "a", "r", "a", "t", "e", "l", "y", ".">>

(* const refusalPhrases = [...] *)
refusalPhrases ==
  <<RefusalDoesNotContain, RefusalIDontHave, RefusalCannotFind, RefusalNoInformation,
    RefusalImSorry>>

UpperCaseLetters ==
  <<"A", "B", "C", "D", "E", "F", "G", "H", "I", "J", "K", "L", "M", "N", "O", "P", "Q",
    "R", "S", "T", "U", "V", "W", "X", "Y", "Z">>

LowerCaseLetters ==
  <<"a", "b", "c", "d", "e", "f", "g", "h", "i", "j", "k", "l", "m", "n", "o", "p", "q",
    "r", "s", "t", "u", "v", "w", "x", "y", "z">>

IsUpperCase(c) == \E k \in 1..Len(UpperCaseLetters) : UpperCaseLetters[k] = c

(* String.prototype.toLowerCase *)
toLowerCase(s) ==
  [i \in 1..Len(s) |->
     IF IsUpperCase(s[i])
       THEN LowerCaseLetters[CHOOSE k \in 1..Len(UpperCaseLetters) : UpperCaseLetters[k] = s[i]]
       ELSE s[i]]

(* String.prototype.includes *)
includes(s, phrase) ==
  \E i \in 0..(Len(s) - Len(phrase)) : \A j \in 1..Len(phrase) : s[i + j] = phrase[j]

IsWhitespace(c) == c \in {" ", "\n"}

(* The positions at which a run of characters other than white space starts *)
WordStarts(s) ==
  { i \in 1..Len(s) : ~IsWhitespace(s[i]) /\ (i = 1 \/ IsWhitespace(s[i - 1])) }

WordAt(s, i) ==
  LET ends == { e \in i..Len(s) : e = Len(s) \/ IsWhitespace(s[e + 1]) }
  IN  Slice(s, i - 1, CHOOSE e \in ends : \A x \in ends : e <= x)

(* split(/\s+/): the runs between white space, with an empty string before
   leading and after trailing white space *)
split(s) ==
  LET starts == WordStarts(s)
      nth(k) == CHOOSE i \in starts : Cardinality({ j \in starts : j < i }) = k - 1
      words == [k \in 1..Cardinality(starts) |-> WordAt(s, nth(k))]
  IN  IF s = <<>> THEN << <<>> >>
      ELSE (IF IsWhitespace(s[1]) THEN << <<>> >> ELSE <<>>)
             \o words
             \o (IF IsWhitespace(s[Len(s)]) THEN << <<>> >> ELSE <<>>)

(* contextWords: context.toLowerCase().split(/\s+/).slice(0, 100) *)
CONTEXT_WORDS == 100

(* contextWords.filter(word => word.length > 4 && responseWords.includes(word)).length *)
contextOverlap(contextText, response) ==
  LET contextWords == Slice(split(toLowerCase(contextText)), 0, CONTEXT_WORDS)
      responseWords == split(toLowerCase(response))
  IN  Cardinality({ i \in 1..Len(contextWords) :
                      /\ Len(contextWords[i]) > 4
                      /\ \E j \in 1..Len(responseWords) : responseWords[j] = contextWords[i] })

(* refusalPhrases.some(phrase => response.toLowerCase().includes(phrase.toLowerCase())) *)
hasRefusal(response) ==
  \E p \in 1..Len(refusalPhrases) :
    includes(toLowerCase(response), toLowerCase(refusalPhrases[p]))

(* A JavaScript value of a score field: a number, undefined, null, a string
   that is no numeral (such as "high"), or NaN *)
Num(v) == [t |-> "number", v |-> v]

Undefined == [t |-> "undefined", v |-> 0]

JsNull == [t |-> "null", v |-> 0]

JsString == [t |-> "string", v |-> 0]

NaN == [t |-> "NaN", v |-> 0]

Dimensions == {"relevance", "completeness", "accuracy", "coherence"}

(* scoreResponseHeuristic *)
scoreResponseHeuristic(contextText, response, chunksRetrieved, avgSimilarity) ==
  LET relevance == IF chunksRetrieved = 0 THEN 2000
                   ELSE IF avgSimilarity >= 8000 THEN 9000
                   ELSE IF avgSimilarity >= 7000 THEN 7500
                   ELSE IF avgSimilarity >= 6000 THEN 6000
                   ELSE 4000
      refusal == hasRefusal(response)
      accuracy0 == IF refusal THEN 3000 ELSE 7000
      completeness0 == IF refusal THEN 2000 ELSE 7000
      completeness == IF Len(response) < 100 THEN (completeness0 * 6) \div 10
                      ELSE IF Len(response) > 1500 THEN (completeness0 * 8) \div 10
                      ELSE completeness0
      hasPunctuation == \E i \in 1..Len(response) : response[i] \in {".", "!", "?"}
      hasCapitalization == \E i \in 1..Len(response) : IsUpperCase(response[i])
      coherence == IF hasPunctuation /\ hasCapitalization THEN 7000 ELSE 5000
      accuracy == IF contextOverlap(contextText, response) > 10
                    THEN Min(10000, accuracy0 + 2000)
                    ELSE accuracy0
  IN  [relevance |-> Num(relevance), completeness |-> Num(completeness),
       accuracy |-> Num(accuracy), coherence |-> Num(coherence),
       overall |-> Num((relevance + completeness + accuracy + coherence) \div 4)]

(* a + b of JavaScript on the values above *)
JsAdd(a, b) ==
  IF a.t = "string" \/ b.t = "string" THEN JsString
  ELSE IF a.t \in {"undefined", "NaN"} \/ b.t \in {"undefined", "NaN"} THEN NaN
  ELSE Num(a.v + b.v)

(* a / 4 of JavaScript on the values above *)
JsDiv4(a) ==
  IF a.t = "number" THEN Num(a.v \div 4)
  ELSE IF a.t = "null" THEN Num(0)
  ELSE NaN

(* JSON.parse(completion.choices[0].message.content || "{}"): the fields of
   the object read by the scorer; "throws" where JSON.parse throws *)
ParseContent(completion) ==
  IF completion.kind \in {"none", "empty"} THEN [d \in Dimensions |-> Undefined]
  ELSE IF completion.kind = "object" THEN completion.fields
  ELSE "throws"

(* The part of scoreResponseWithGPT4 and scoreResponseWithGPT35 after JSON.parse *)
JudgeScores(parsed) ==
  [relevance |-> parsed["relevance"], completeness |-> parsed["completeness"],
   accuracy |-> parsed["accuracy"], coherence |-> parsed["coherence"],
   overall |-> JsDiv4(JsAdd(JsAdd(JsAdd(parsed["relevance"], parsed["completeness"]),
                                  parsed["accuracy"]), parsed["coherence"]))]

(* The judge throws: the completion call fails, the content is not JSON
   (SyntaxError), or it is the JSON null (TypeError on result.relevance) *)
JudgeThrows(completion) == completion.kind \in {"error", "invalid", "null"}

MaxContextRepeats == 11

MaxAnswerRepeats == 30

Repeat(s, n) == Concat([i \in 1..n |-> s])

OrdersWord == <<"o", "r", "d", "e", "r", "s", " ">>

ShortWord == <<"a", " ">>

ScorerContexts ==
  {<<>>, PolicyContext, Repeat(ShortWord, CONTEXT_WORDS) \o PolicyContext}
    \cup { Repeat(OrdersWord, n) : n \in (MaxContextRepeats - 1)..MaxContextRepeats }

ScorerResponses ==
  {<<>>, ResponseCannotFind, ResponseUpperCase, ResponseNoInformational, ResponseAnswer,
   ResponseSorryFromContext, ResponseAnswerFromContext, ResponseSorryOrders,
   Repeat(ResponseAnswer \o <<" ">>, MaxAnswerRepeats)}

ScorerSimilarities == {0, 5999, 6000, 7000, 8000}

JudgeFieldValues == {Undefined, JsNull, JsString, Num(7000), Num(10000)}

JudgeCompletions ==
  { [kind |-> k, fields |-> [d \in Dimensions |-> Undefined]] :
      k \in {"error", "none", "empty", "invalid", "null"} }
    \cup { [kind |-> "object", fields |-> f] : f \in [Dimensions -> JudgeFieldValues] }

NoCompletion == [kind |-> "unused", fields |-> [d \in Dimensions |-> Undefined]]

InitScorer ==
  /\ IdleChunk /\ IdleEmbed /\ IdleStore /\ IdleUpload /\ IdleSearch
  /\ IdlePrefilter /\ IdleAssemble /\ IdleCoalesce /\ IdleJob /\ IdleAfterScorer
  /\ spc = "called" /\ scores = <<>>
  /\ \/ \E c \in ScorerContexts, r \in ScorerResponses, n \in {0, 3},
           s \in ScorerSimilarities :
          scoreArgs = [method |-> "heuristic", context |-> c, response |-> r,
                       chunksRetrieved |-> n, avgSimilarity |-> s,
                       completion |-> NoCompletion]
     \/ \E m \in {"gpt4", "gpt3.5"}, completion \in JudgeCompletions :
          scoreArgs = [method |-> m, context |-> PolicyContext, response |-> ResponseAnswer,
                       chunksRetrieved |-> 3, avgSimilarity |-> 7000,
                       completion |-> completion]

(* scoreResponse, case 'heuristic' *)
ScoreHeuristic ==
  /\ spc = "called" /\ scoreArgs.method = "heuristic"
  /\ scores' = scoreResponseHeuristic(scoreArgs.context, scoreArgs.response,
                                      scoreArgs.chunksRetrieved, scoreArgs.avgSimilarity)
  /\ spc' = "returned"
  /\ UNCHANGED scoreArgs
  /\ UNCHANGED <<chunkVars, embedVars, storeVars, uploadVars, searchVars, prefilterVars,
                 assembleVars, coalesceVars, jobVars, afterScorerVars>>

(* scoreResponse, cases 'gpt4' and 'gpt3.5': the judge returns *)
ScoreWithJudge ==
  /\ spc = "called" /\ scoreArgs.method \in {"gpt4", "gpt3.5"}
  /\ ~JudgeThrows(scoreArgs.completion)
  /\ scores' = JudgeScores(ParseContent(scoreArgs.completion))
  /\ spc' = "returned"
  /\ UNCHANGED scoreArgs
  /\ UNCHANGED <<chunkVars, embedVars, storeVars, uploadVars, searchVars, prefilterVars,
                 assembleVars, coalesceVars, jobVars, afterScorerVars>>

(* scoreResponse, cases 'gpt4' and 'gpt3.5': catch (error) { ...; throw error; } *)
ScoreJudgeThrows ==
  /\ spc = "called" /\ scoreArgs.method \in {"gpt4", "gpt3.5"}
  /\ JudgeThrows(scoreArgs.completion)
  /\ spc' = "threw"
  /\ UNCHANGED <<scoreArgs, scores>>
  /\ UNCHANGED <<chunkVars, embedVars, storeVars, uploadVars, searchVars, prefilterVars,
                 assembleVars, coalesceVars, jobVars, afterScorerVars>>

NextScorer ==
  \/ ScoreHeuristic
  \/ ScoreWithJudge
  \/ ScoreJudgeThrows

SpecScorer == InitScorer /\ [][NextScorer]_vars

(* C24: the heuristic scorer gives a response that contains a refusal phrase
   (case-insensitive substring) an accuracy of at most 0.3. *)
C24_RefusalCapsAccuracy ==
  (spc = "returned" /\ scoreArgs.method = "heuristic" /\ hasRefusal(scoreArgs.response))
    => scores.accuracy.v <= 3000

IsNumber(x) == x.t = "number"

(* The completion content holds the four numeric fields *)
ParsesToFourNumbers(completion) ==
  /\ completion.kind = "object"
  /\ \A d \in Dimensions : IsNumber(completion.fields[d])

(* C25: a judge call whose output does not parse into the four numeric
   fields fails with an error, and a judge call that returns gives a number
   for every dimension and for overall. *)
C25_JudgeRejectsUnparsable ==
  (spc # "called" /\ scoreArgs.method \in {"gpt4", "gpt3.5"}) =>
    /\ ~ParsesToFourNumbers(scoreArgs.completion) => spc = "threw"
    /\ spc = "returned" =>
         /\ IsNumber(scores.relevance) /\ IsNumber(scores.completeness)
         /\ IsNumber(scores.accuracy) /\ IsNumber(scores.coherence)
         /\ IsNumber(scores.overall)

----------------------------------------------------------------------------
(* The chat route, POST /api/chat, request by request: session and user
   message, query embedding, search, merging, history, completion, assistant
   message, analytics and the optional quality score.  Requests interleave at
   their awaits. *)

MaxStoredMessages == 11

(* .limit(10) of the history query *)
HISTORY_LIMIT == 10

StoredSession == "S"

(* uuidv4() of a request that came without sessionId *)
NewSessionId(q) == IF q = 1 THEN "N1" ELSE "N2"

UserMessage(q) == <<"q", Digits[q + 1]>>

OldContent(i) == <<"o", Digits[(i \div 10) + 1], Digits[(i % 10) + 1]>>

OldMessage(i) ==
  [id |-> i, session_id |-> StoredSession,
   role |-> IF i % 2 = 1 THEN "user" ELSE "assistant", content |-> OldContent(i)]

StoredCounts == {0, MaxStoredMessages}

NewRequest(sid, msg) ==
  [pc |-> "received", sessionId |-> sid, message |-> msg, currentSessionId |-> sid,
   userMessageId |-> 0, relevantChunks |-> <<>>, searchError |-> FALSE,
   mergedChunks |-> <<>>, context |-> <<>>, history |-> <<>>, messages |-> <<>>,
   chatResponse |-> <<>>, responseIsNull |-> FALSE, analyticsId |-> 0,
   status |-> 0, body |-> <<>>,
   written |-> {}, completionCalls |-> 0, completionReturned |-> FALSE,
   scoringFailed |-> FALSE]

InitChat ==
  /\ IdleChunk /\ IdleEmbed /\ IdleStore /\ IdleUpload /\ IdleSearch
  /\ IdlePrefilter /\ IdleAssemble /\ IdleCoalesce /\ IdleJob /\ IdleScorer
  /\ IdleSummarizer
  /\ chat_sessions = {StoredSession}
  /\ \E n \in StoredCounts : chat_messages = [i \in 1..n |-> OldMessage(i)]
  /\ query_analytics = {} /\ query_chunks = {} /\ response_quality_scores = {}
  /\ autoScoreResponses \in BOOLEAN
  /\ \E sids \in [Requests -> {"", StoredSession}] :
       creq = [q \in Requests |->
                 NewRequest(sids[q], IF q = 2 /\ sids[q] = "" THEN <<>> ELSE UserMessage(q))]

(* What the search can return: an error with data null, no row, two rows *)
SearchOutcomes ==
  { [data |-> <<>>, error |-> TRUE],
    [data |-> <<>>, error |-> FALSE],
    [data |-> <<SearchRow(1, 0, "equal"), SearchRow(1, 1, "equal")>>, error |-> FALSE] }

(* if (searchError) { console.error(...) }: the request goes on *)
AfterSearch_Throws(error) == IF error THEN "failed" ELSE "history"
AfterSearch(error) == "history"

(* .select("role, content").eq("session_id", ...).order("created_at", { ascending: true }).limit(10);
   the id of a row is kept to tell the rows apart *)
FetchHistory(msgs, sid) ==
  Slice(SelectSeq(msgs, LAMBDA m : m.session_id = sid), 0, HISTORY_LIMIT)

(* (history || []).slice(0, -1) *)
DropLast(h) == Slice(h, 0, -1)

RoleContent(h) == [i \in 1..Len(h) |-> [role |-> h[i].role, content |-> h[i].content]]

(* The end of the system message: "Context:\n\n${context}" (the fixed
   instructions before it are left out) *)
SystemMessage(contextText) ==
  [role |-> "system",
   content |-> <<"C", "o", "n", "t", "e", "x", "t", ":", "\n", "\n">> \o contextText]

BuildMessages(contextText, h, msg) ==
  <<SystemMessage(contextText)>> \o RoleContent(DropLast(h))
    \o <<[role |-> "user", content |-> msg]>>

(* relevantChunks.reduce((sum, chunk) => sum + (chunk.combined_score || 0), 0) / length, or 0 *)
avgCombinedScore(cs) ==
  IF Len(cs) > 0 THEN Sum([i \in 1..Len(cs) |-> cs[i].combined_score]) \div Len(cs) ELSE 0

ErrorBody == <<"error">>

Respond(c, st, b) == [c EXCEPT !.pc = "responded", !.status = st, !.body = b]

(* catch (error) of the route: status 500 *)
Fail(c) == Respond(c, 500, ErrorBody)

Succeed(c) == Respond(c, 200, <<c.chatResponse, c.currentSessionId, c.analyticsId>>)

UnchangedChatStore ==
  UNCHANGED <<chat_sessions, chat_messages, query_analytics, query_chunks,
              response_quality_scores>>

NotChat ==
  UNCHANGED <<chunkVars, embedVars, storeVars, uploadVars, searchVars, prefilterVars,
              assembleVars, coalesceVars, jobVars, scorerVars, summarizerVars>>

(* if (!message || !companyId) return 400 *)
ChatBadRequest ==
  \E q \in Requests :
    /\ creq[q].pc = "received" /\ creq[q].message = <<>>
    /\ creq' = [creq EXCEPT ![q] = Respond(@, 400, ErrorBody)]
    /\ UnchangedChatStore /\ UNCHANGED autoScoreResponses /\ NotChat

(* Get or create session; save user message *)
ChatSaveUserMessage ==
  \E q \in Requests :
    LET c == creq[q]
        sid == IF c.sessionId = "" THEN NewSessionId(q) ELSE c.sessionId
        id == Len(chat_messages) + 1
    IN  /\ c.pc = "received" /\ c.message # <<>>
        /\ chat_sessions' = chat_sessions \cup {sid}
        /\ chat_messages' = Append(chat_messages,
             [id |-> id, session_id |-> sid, role |-> "user", content |-> c.message])
        /\ creq' = [creq EXCEPT ![q] =
             [c EXCEPT !.pc = "embedding", !.currentSessionId = sid, !.userMessageId = id,
                       !.written = @ \cup (IF c.sessionId = "" THEN {"chat_sessions"} ELSE {})
                                     \cup {"chat_messages"}]]
        /\ UNCHANGED <<query_analytics, query_chunks, response_quality_scores,
                       autoScoreResponses>>
        /\ NotChat

(* generateEmbedding(message) returns; the search is sent *)
ChatEmbedded ==
  \E q \in Requests :
    /\ creq[q].pc = "embedding"
    /\ creq' = [creq EXCEPT ![q].pc = "searching"]
    /\ UnchangedChatStore /\ UNCHANGED autoScoreResponses /\ NotChat

(* generateEmbedding(message) throws *)
ChatEmbeddingFails ==
  \E q \in Requests :
    /\ creq[q].pc = "embedding"
    /\ creq' = [creq EXCEPT ![q] = Fail(@)]
    /\ UnchangedChatStore /\ UNCHANGED autoScoreResponses /\ NotChat

(* The search returns; chunks are merged and the context is built; the
   history query is sent *)
ChatSearched ==
  \E q \in Requests, res \in SearchOutcomes :
   /\ creq[q].pc = "searching"
   /\ \E merged \in {MergeChunks(res.data)} :
    LET c == creq[q]
    IN  /\ c.pc = "searching"
        /\ creq' = [creq EXCEPT ![q] =
             IF AfterSearch(res.error) = "failed"
               THEN Fail([c EXCEPT !.searchError = res.error])
               ELSE [c EXCEPT !.pc = "history", !.relevantChunks = res.data,
                              !.searchError = res.error, !.mergedChunks = merged,
                              !.context = BuildContext(merged)]]
        /\ UnchangedChatStore /\ UNCHANGED autoScoreResponses /\ NotChat

(* The history comes back; messages is built and chat(messages) is called *)
ChatFetchHistory ==
  \E q \in Requests :
    LET c == creq[q]
        h == FetchHistory(chat_messages, c.currentSessionId)
    IN  /\ c.pc = "history"
        /\ creq' = [creq EXCEPT ![q] =
             [c EXCEPT !.pc = "completing", !.history = h,
                       !.messages = BuildMessages(c.context, h, c.message),
                       !.completionCalls = @ + 1]]
        /\ UnchangedChatStore /\ UNCHANGED autoScoreResponses /\ NotChat

(* chat(messages) returns its content, which may be null *)
ChatCompleted ==
  \E q \in Requests, reply \in {<<>>, ResponseAnswer, ResponseCannotFind} :
    /\ creq[q].pc = "completing"
    /\ creq' = [creq EXCEPT ![q] =
         [@ EXCEPT !.pc = "saving", !.chatResponse = reply, !.responseIsNull = (reply = <<>>),
                   !.completionReturned = TRUE]]
    /\ UnchangedChatStore /\ UNCHANGED autoScoreResponses /\ NotChat

(* chat(messages) throws *)
ChatCompletionFails ==
  \E q \in Requests :
    /\ creq[q].pc = "completing"
    /\ creq' = [creq EXCEPT ![q] = Fail(@)]
    /\ UnchangedChatStore /\ UNCHANGED autoScoreResponses /\ NotChat

(* Save assistant message; chatResponse.length then throws on a null content *)
ChatSaveAssistantMessage ==
  \E q \in Requests :
    LET c == creq[q]
        saved == [c EXCEPT !.written = @ \cup {"chat_messages"}]
    IN  /\ c.pc = "saving"
        /\ chat_messages' = Append(chat_messages,
             [id |-> Len(chat_messages) + 1, session_id |-> c.currentSessionId,
              role |-> "assistant", content |-> c.chatResponse])
        /\ creq' = [creq EXCEPT ![q] =
             IF c.responseIsNull THEN Fail(saved) ELSE [saved EXCEPT !.pc = "analytics"]]
        /\ UNCHANGED <<chat_sessions, query_analytics, query_chunks,
                       response_quality_scores, autoScoreResponses>>
        /\ NotChat

(* Save query analytics and the chunk references; without auto-scoring the
   response is returned *)
ChatSaveAnalytics ==
  \E q \in Requests :
    LET c == creq[q]
        saved == [c EXCEPT !.analyticsId = q,
                           !.written = @ \cup {"query_analytics"}
                                         \cup (IF Len(c.relevantChunks) > 0
                                                 THEN {"query_chunks"} ELSE {})]
    IN  /\ c.pc = "analytics"
        /\ query_analytics' = query_analytics \cup
             {[id |-> q, query_text |-> c.message, response_text |-> c.chatResponse,
               response_length |-> Len(c.chatResponse),
               contained_refusal |-> hasRefusal(c.chatResponse),
               chunks_retrieved |-> Len(c.relevantChunks),
               avg_similarity |-> avgCombinedScore(c.relevantChunks),
               context_length |-> Len(c.context),
               num_merged_chunks |-> Len(c.mergedChunks)]}
        /\ query_chunks' = query_chunks \cup
             { [query_analytics_id |-> q, chunk_id |-> c.relevantChunks[i].id,
                similarity_score |-> c.relevantChunks[i].combined_score] :
                 i \in 1..Len(c.relevantChunks) }
        /\ creq' = [creq EXCEPT ![q] =
             IF autoScoreResponses THEN [saved EXCEPT !.pc = "loadScorer"] ELSE Succeed(saved)]
        /\ UNCHANGED <<chat_sessions, chat_messages, response_quality_scores,
                       autoScoreResponses>>
        /\ NotChat

(* await import("@/lib/chat/quality-scorer") resolves *)
ChatScorerLoaded ==
  \E q \in Requests :
    /\ creq[q].pc = "loadScorer"
    /\ creq' = [creq EXCEPT ![q].pc = "scoring"]
    /\ UnchangedChatStore /\ UNCHANGED autoScoreResponses /\ NotChat

(* await import("@/lib/chat/quality-scorer") rejects: the import is before
   the inner try, so the catch of the route answers *)
ChatScorerLoadFails ==
  \E q \in Requests :
    /\ creq[q].pc = "loadScorer"
    /\ creq' = [creq EXCEPT ![q] = Fail([@ EXCEPT !.scoringFailed = TRUE])]
    /\ UnchangedChatStore /\ UNCHANGED autoScoreResponses /\ NotChat

(* scoreResponse(..., "heuristic") returns and the score is saved *)
ChatScoreSaved ==
  \E q \in Requests :
   /\ creq[q].pc = "scoring"
   /\ \E sc \in {scoreResponseHeuristic(creq[q].context, creq[q].chatResponse,
                                        Len(creq[q].relevantChunks),
                                        10 * avgCombinedScore(creq[q].relevantChunks))} :
    LET c == creq[q]
    IN  /\ c.pc = "scoring"
        /\ response_quality_scores' = response_quality_scores \cup
             {[query_analytics_id |-> c.analyticsId, relevance_score |-> sc.relevance,
               completeness_score |-> sc.completeness, accuracy_score |-> sc.accuracy,
               coherence_score |-> sc.coherence, overall_score |-> sc.overall,
               scoring_method |-> "heuristic"]}
        /\ creq' = [creq EXCEPT ![q] =
             Succeed([c EXCEPT !.written = @ \cup {"response_quality_scores"}])]
        /\ UNCHANGED <<chat_sessions, chat_messages, query_analytics, query_chunks,
                       autoScoreResponses>>
        /\ NotChat

(* scoreResponse or the insert of the score throws: catch (scoreError) *)
ChatScoreFails ==
  \E q \in Requests :
    /\ creq[q].pc = "scoring"
    /\ creq' = [creq EXCEPT ![q] = Succeed([@ EXCEPT !.scoringFailed = TRUE])]
    /\ UnchangedChatStore /\ UNCHANGED autoScoreResponses /\ NotChat

NextChat ==
  \/ ChatBadRequest
  \/ ChatSaveUserMessage
  \/ ChatEmbedded
  \/ ChatEmbeddingFails
  \/ ChatSearched
  \/ ChatFetchHistory
  \/ ChatCompleted
  \/ ChatCompletionFails
  \/ ChatSaveAssistantMessage
  \/ ChatSaveAnalytics
  \/ ChatScorerLoaded
  \/ ChatScorerLoadFails
  \/ ChatScoreSaved
  \/ ChatScoreFails

SpecChat == InitChat /\ [][NextChat]_vars

StoredScoreOf(c) == { s \in response_quality_scores : s.query_analytics_id = c.analyticsId }

(* C26: with auto-scoring enabled, a failure of the quality scoring step
   (loading the scorer, computing the score or saving it) leaves the request
   successful: status 200 with the response, sessionId and analyticsId, and no
   stored quality score. *)
C26_ScoringFailureKeepsRequest ==
  \A q \in Requests :
    (creq[q].pc = "responded" /\ creq[q].scoringFailed) =>
      /\ creq[q].status = 200
      /\ creq[q].body = <<creq[q].chatResponse, creq[q].currentSessionId, creq[q].analyticsId>>
      /\ StoredScoreOf(creq[q]) = {}

(* C27: a request whose search returned an error does not fail for it: it has
   no retrieved chunk, no merged passage and an empty context, calls the
   completion service with that empty context, and its analytics row has
   chunks_retrieved = 0 and num_merged_chunks = 0. *)
C27_SearchErrorAbsorbed ==
  \A q \in Requests :
    creq[q].searchError =>
      /\ creq[q].pc = "responded" => creq[q].completionCalls = 1
      /\ creq[q].relevantChunks = <<>> /\ creq[q].mergedChunks = <<>>
      /\ creq[q].context = <<>>
      /\ creq[q].completionCalls = 1 => creq[q].messages[1] = SystemMessage(<<>>)
      /\ \A a \in query_analytics :
           a.id = q => a.chunks_retrieved = 0 /\ a.num_merged_chunks = 0

(* A request whose search returned an error was answered with status 200 and
   has its analytics row *)
C27_Witness ==
  \E q \in Requests :
    /\ creq[q].searchError /\ creq[q].pc = "responded" /\ creq[q].status = 200
    /\ \E a \in query_analytics : a.id = q /\ a.chunks_retrieved = 0

(* C28: no write to the store happens before the completion call of the
   request returns, so a request that fails during embedding, search or
   completion has written nothing. *)
C28_NoWriteBeforeCompletion ==
  \A q \in Requests : ~creq[q].completionReturned => creq[q].written = {}

(* C30: the message list sent to the completion service is the system
   message, every fetched history message other than the user message this
   request inserted, and the current user message once. *)
C30_DropsOwnMessage ==
  \A q \in Requests :
    creq[q].completionCalls = 1 =>
      creq[q].messages =
        <<SystemMessage(creq[q].context)>>
          \o RoleContent(SelectSeq(creq[q].history, LAMBDA m : m.id # creq[q].userMessageId))
          \o <<[role |-> "user", content |-> creq[q].message]>>

----------------------------------------------------------------------------
(* generateDocumentSummary: the chunks of a document are fetched in
   chunk_index order, coalesced batch by batch, each batch text summarized,
   and the batch summaries combined. *)

MaxSummaryChunks == 4

CHUNKS_PER_BATCH == 200

(* A document text of the given length *)
PatternText(pattern, length) == [i \in 1..length |-> CharAt(pattern, i - 1)]

(* The length of the last chunk of the explored texts: shorter than the
   shortest overlap looked for, that length, the overlap, above it, a full step *)
LastChunkLengths ==
  {30, MIN_OVERLAP_SCAN, DefaultOverlap, DefaultOverlap + 30, DefaultChunkSize - DefaultOverlap}

(* Texts of up to MaxSummaryChunks chunks, and one of a batch and one chunk *)
SummaryTexts ==
  { PatternText(p, k * (DefaultChunkSize - DefaultOverlap) + r) :
      p \in TextPatterns, k \in 0..(MaxSummaryChunks - 1), r \in LastChunkLengths }
    \cup { PatternText("unique", CHUNKS_PER_BATCH * (DefaultChunkSize - DefaultOverlap)
                                   + DefaultOverlap + 30) }

(* The rows the upload route stores for a text: chunkText(content) with its
   defaults, chunk_index from 0.  Chunk i of chunkText starts at
   i * (chunkSize - overlap), for every such start before the end of the text. *)
StoredChunks(t) ==
  LET n == CeilDiv(Len(t), NextStart(0, DefaultChunkSize, DefaultOverlap))
      startOf(i) == i * NextStart(0, DefaultChunkSize, DefaultOverlap)
  IN  [i \in 1..n |->
         [chunk_text |-> Slice(t, startOf(i - 1), ChunkEnd(startOf(i - 1), DefaultChunkSize, t)),
          chunk_index |-> i - 1]]

InitSummarizer ==
  /\ IdleChunk /\ IdleEmbed /\ IdleStore /\ IdleUpload /\ IdleSearch
  /\ IdlePrefilter /\ IdleAssemble /\ IdleJob /\ IdleScorer /\ IdleChat
  /\ coalesceInput = <<>> /\ ci = 0 /\ result = <<>> /\ copc = "idle"
  /\ knownOverlap = DefaultOverlap
  /\ gpc = "called" /\ gChunks = <<>> /\ gi = 0 /\ batchTexts = <<>>
  /\ gText \in SummaryTexts \cup {<<>>}

NotSummarizer ==
  UNCHANGED <<chunkVars, embedVars, storeVars, uploadVars, searchVars, prefilterVars,
              assembleVars, jobVars, scorerVars, chatVars>>

(* The chunks come back in chunk_index order *)
GenFetchChunks ==
  /\ gpc = "called" /\ gText # <<>>
  /\ gChunks' = StoredChunks(gText)
  /\ gpc' = "loop"
  /\ UNCHANGED <<gi, batchTexts, gText, coalesceVars>>
  /\ NotSummarizer

(* if (error) throw ...; if (!chunks || chunks.length === 0) throw ... *)
GenFetchThrows ==
  /\ gpc = "called"
  /\ gpc' = "threw"
  /\ UNCHANGED <<gChunks, gi, batchTexts, gText, coalesceVars>>
  /\ NotSummarizer

(* One iteration of the batch loop: chunks.slice(i, i + CHUNKS_PER_BATCH) is
   passed to coalesceChunks *)
GenCoalesceBatch ==
  /\ gpc = "loop" /\ gi < Len(gChunks)
  /\ coalesceInput' = Slice(gChunks, gi, gi + CHUNKS_PER_BATCH)
  /\ ci' = 0 /\ result' = <<>> /\ copc' = "called"
  /\ gpc' = "coalescing"
  /\ UNCHANGED <<gChunks, gi, batchTexts, gText, knownOverlap>>
  /\ NotSummarizer

(* coalesceChunks has returned coalescedText; summarizeBatch is called with
   it and returns *)
GenSummarizeBatch ==
  /\ gpc = "coalescing" /\ copc = "returned"
  /\ batchTexts' = Append(batchTexts, result)
  /\ gi' = gi + CHUNKS_PER_BATCH
  /\ gpc' = "loop"
  /\ coalesceInput' = <<>> /\ ci' = 0 /\ result' = <<>> /\ copc' = "idle"
  /\ UNCHANGED <<gChunks, gText, knownOverlap>>
  /\ NotSummarizer

(* summarizeBatch throws *)
GenSummarizeBatchThrows ==
  /\ gpc = "coalescing" /\ copc = "returned"
  /\ gpc' = "threw"
  /\ UNCHANGED <<gChunks, gi, batchTexts, gText, coalesceVars>>
  /\ NotSummarizer

(* combineSummaries(batchSummaries, documentName) *)
GenCombine ==
  /\ gpc = "loop" /\ gi >= Len(gChunks)
  /\ gpc' = "combined"
  /\ UNCHANGED <<gChunks, gi, batchTexts, gText, coalesceVars>>
  /\ NotSummarizer

NextSummarizer ==
  \/ GenFetchChunks
  \/ GenFetchThrows
  \/ GenCoalesceBatch
  \/ CoalesceShortInput
  \/ CoalesceStart
  \/ CoalesceLoopBody
  \/ CoalesceReturn
  \/ GenSummarizeBatch
  \/ GenSummarizeBatchThrows
  \/ GenCombine

SpecSummarizer == InitSummarizer /\ [][NextSummarizer]_vars

(* C29: the text the summarizer builds from the chunks of a text T, cut by
   chunkText with its defaults and read in index order, equals T. *)
C29_SummarizerRebuildsText ==
  gpc = "combined" => Concat(batchTexts) = gText

====
